---- MODULE Spec2Model ----
(***************************************************************************)
(* PointGPS: the waypoint store (GPSDataManager), its spreadsheet import    *)
(* and export, the coordinate and elevation converters, and the elevation  *)
(* enrichment driven by the store and by PointManager.                      *)
(*                                                                         *)
(* Representation.                                                         *)
(*  - A JavaScript string is a sequence of one-character tokens.  ASCII    *)
(*    characters stand for themselves; the other characters the program    *)
(*    tests for are named by an ASCII token (the glyph is given where the  *)
(*    token is defined).                                                    *)
(*  - A JavaScript number is a record [k, v]: k = "num" with v the value   *)
(*    in fixed point (Scale units per 1), k = "nan" for NaN, k = "inf" for *)
(*    +Infinity (v = 1) and -Infinity (v = -1).  Scale = 9 000 000 makes   *)
(*    six decimal places (9 units) and a hundredth of an arc-second        *)
(*    (25 units) both exact.  Binary floating point error (about 1e-13 of  *)
(*    a degree) is below the resolution of every statement made here.      *)
(***************************************************************************)
EXTENDS Integers, Sequences, FiniteSets, TLC

VARIABLES
    variant,    \* which GPSDataManager is loaded: "strict" or "loose"
    gpsPoints,  \* GPSDataManager.gpsPoints: the ordered waypoint records
    nextId,     \* GPSDataManager.nextId (loose variant): counter of P<n> ids
    pending,    \* lookups in flight: the suspended async calls, oldest first
    loops,      \* fetchMissingElevations loops in progress (loose variant)
    detached,   \* records no longer in the store that a suspended call still holds
    ret,        \* what the last completed operation returned or threw
    hist,       \* the last operation and its arguments (observation only)
    markers,          \* PointManager.markers: the Map from point id to marker
    selectedMarker,   \* PointManager.selectedMarker (a marker, or none)
    selectedPointId,  \* PointManager.selectedPointId (an id, or null)
    isAddingPoint,    \* PointManager.isAddingPoint
    isMovingPoint,    \* PointManager.isMovingPoint
    isDragging,       \* PointManager.isDragging
    draggingMarker,   \* PointManager.draggingMarker (a marker, or none)
    draggingPointId,  \* PointManager.draggingPointId (an id, or null)
    pointIdField      \* the value of the form's pointIdField

\* The state of PointManager and of the form.
pmVars == <<markers, selectedMarker, selectedPointId, isAddingPoint, isMovingPoint,
            isDragging, draggingMarker, draggingPointId, pointIdField>>

vars == <<variant, gpsPoints, nextId, pending, loops, detached, ret, hist, pmVars>>

----------------------------------------------------------------------------
(* Characters *)

Digits == {"0", "1", "2", "3", "4", "5", "6", "7", "8", "9"}

DigitVal(c) ==
    CASE c = "0" -> 0 [] c = "1" -> 1 [] c = "2" -> 2 [] c = "3" -> 3
      [] c = "4" -> 4 [] c = "5" -> 5 [] c = "6" -> 6 [] c = "7" -> 7
      [] c = "8" -> 8 [] c = "9" -> 9

DigitChar(n) ==
    CASE n = 0 -> "0" [] n = 1 -> "1" [] n = 2 -> "2" [] n = 3 -> "3"
      [] n = 4 -> "4" [] n = 5 -> "5" [] n = 6 -> "6" [] n = 7 -> "7"
      [] n = 8 -> "8" [] n = 9 -> "9"

\* White space of String.prototype.trim, of \s and of parseFloat's prefix:
\* the space and the ideographic space U+3000 (token "fwsp").
WhiteSpace == {" ", "fwsp"}

\* Glyph tokens.  KARI is U+4EEE, the marker of a temporary id.
KARI == "KARI"
\* DEG is the degree sign U+00B0; K_DO, K_FUN, K_BYOU are the kanji for
\* degree, minute and second (U+5EA6, U+5206, U+79D2).
DEG == "deg"
K_DO == "kDO"
K_FUN == "kFUN"
K_BYOU == "kBYOU"

\* The header labels of the strict variant, character by character.
\* "po-i-n-to" in katakana followed by the Latin letters I and D.
LabelId == <<"kPO", "kI", "kN", "kTO", "I", "D">>
\* "meishou" (name)
LabelLocation == <<"kMEI", "kSHOU">>
\* "ido" (latitude)
LabelLat == <<"kI_lat", K_DO>>
\* "keido" (longitude)
LabelLng == <<"kKEI", K_DO>>
\* "hyoukou" (elevation)
LabelElevation == <<"kHYOU", "kKOU">>
\* "bikou" (remarks)
LabelRemarks == <<"kBI", "kKOU_rem">>

----------------------------------------------------------------------------
(* Numbers *)

Scale == 9 * 1000000

Num(v) == [k |-> "num", v |-> v]
NaN == [k |-> "nan", v |-> 0]
Infinity == [k |-> "inf", v |-> 1]
NegInfinity == [k |-> "inf", v |-> -1]

\* isNaN(x)
IsNaN(x) == x.k = "nan"
\* Number.isFinite(x)
IsFiniteNum(x) == x.k = "num"

Abs(n) == IF n < 0 THEN -n ELSE n

Pow10(d) ==
    CASE d = 0 -> 1 [] d = 1 -> 10 [] d = 2 -> 100 [] d = 3 -> 1000
      [] d = 4 -> 10000 [] d = 5 -> 100000 [] d = 6 -> 1000000

----------------------------------------------------------------------------
(* Strings *)

RECURSIVE SkipWs(_, _)
\* The first position >= i of t that holds no white space (Len(t)+1 if none).
SkipWs(t, i) ==
    IF i <= Len(t) /\ t[i] \in WhiteSpace THEN SkipWs(t, i + 1) ELSE i

RECURSIVE SkipWsBack(_, _)
SkipWsBack(t, j) ==
    IF j >= 1 /\ t[j] \in WhiteSpace THEN SkipWsBack(t, j - 1) ELSE j

\* String.prototype.trim
Trim(t) ==
    LET i == SkipWs(t, 1)
        j == SkipWsBack(t, Len(t))
    IN  IF i > j THEN <<>> ELSE SubSeq(t, i, j)

RECURSIVE DigitRunEnd(_, _)
\* The first position >= i of t that holds no digit.
DigitRunEnd(t, i) ==
    IF i <= Len(t) /\ t[i] \in Digits THEN DigitRunEnd(t, i + 1) ELSE i

RECURSIVE DigitsValue(_, _, _)
\* The natural number written by the digits t[i..j].
DigitsValue(t, i, j) ==
    IF j < i THEN 0 ELSE DigitsValue(t, i, j - 1) * 10 + DigitVal(t[j])

RECURSIVE FracUnits(_, _, _, _)
\* The fixed-point value of the fraction digits t[i..j], the first of weight w.
\* Digits past the sixth are below the resolution and contribute nothing.
FracUnits(t, i, j, w) ==
    IF j < i \/ w = 0 THEN 0
    ELSE DigitVal(t[i]) * w + FracUnits(t, i + 1, j, w \div 10)

RECURSIVE NatToText(_)
\* The decimal digits of a natural number.
NatToText(n) ==
    IF n < 10 THEN <<DigitChar(n)>>
    ELSE Append(NatToText(n \div 10), DigitChar(n % 10))

RECURSIVE PadStart(_, _, _)
\* String.prototype.padStart(len, c)
PadStart(t, len, c) ==
    IF Len(t) >= len THEN t ELSE PadStart(<<c>> \o t, len, c)

StartsWith(t, p, i) ==
    /\ i + Len(p) - 1 <= Len(t)
    /\ SubSeq(t, i, i + Len(p) - 1) = p

EndsWith(t, p) ==
    /\ Len(p) <= Len(t)
    /\ SubSeq(t, Len(t) - Len(p) + 1, Len(t)) = p

InfinityText == <<"I", "n", "f", "i", "n", "i", "t", "y">>
NaNText == <<"N", "a", "N">>

\* parseFloat(string): optional white space, optional sign, then "Infinity" or
\* a decimal literal (digits, optionally a point and digits); whatever follows
\* is ignored.  NaN when no literal starts there.  Exponents are outside the
\* alphabet of the inputs this model draws.
\* The literal's value: integer digits t[i1..i2-1], fraction digits from i2+1
\* up to i3-1 (i3 = i2 when there is no point).
ParseFloatValue(t, neg, i1, i2, i3) ==
    IF (i2 - i1) + (IF i3 > i2 THEN i3 - i2 - 1 ELSE 0) = 0 THEN NaN
    ELSE IF neg
    THEN Num(0 - (DigitsValue(t, i1, i2 - 1) * Scale
                  + FracUnits(t, i2 + 1, i3 - 1, Scale \div 10)))
    ELSE Num(DigitsValue(t, i1, i2 - 1) * Scale
             + FracUnits(t, i2 + 1, i3 - 1, Scale \div 10))

ParseFloatDigits(t, neg, i1, i2) ==
    ParseFloatValue(t, neg, i1, i2,
                    IF i2 <= Len(t) /\ t[i2] = "." THEN DigitRunEnd(t, i2 + 1) ELSE i2)

ParseFloatLiteral(t, neg, i1) ==
    IF StartsWith(t, InfinityText, i1)
    THEN (IF neg THEN NegInfinity ELSE Infinity)
    ELSE ParseFloatDigits(t, neg, i1, DigitRunEnd(t, i1))

ParseFloatSigned(t, i0) ==
    ParseFloatLiteral(t, i0 <= Len(t) /\ t[i0] = "-",
                      IF i0 <= Len(t) /\ t[i0] \in {"-", "+"} THEN i0 + 1 ELSE i0)

ParseFloat(t) == ParseFloatSigned(t, SkipWs(t, 1))

\* Number.prototype.toFixed(d) for d <= 6: the nearest multiple of 10^-d, a
\* tie going away from zero; the sign is kept even when the digits are zero.
ToFixed(x, d) ==
    IF x.k = "nan" THEN NaNText
    ELSE IF x.k = "inf" THEN (IF x.v < 0 THEN <<"-">> ELSE <<>>) \o InfinityText
    ELSE LET step == Scale \div Pow10(d)
             q == (Abs(x.v) + step \div 2) \div step
             whole == NatToText(q \div Pow10(d))
             frac == PadStart(NatToText(q % Pow10(d)), d, "0")
         IN  (IF x.v < 0 THEN <<"-">> ELSE <<>>)
             \o whole \o (IF d = 0 THEN <<>> ELSE <<".">> \o frac)

RECURSIVE StripZeros(_)
StripZeros(t) ==
    IF t # <<>> /\ t[Len(t)] = "0" THEN StripZeros(SubSeq(t, 1, Len(t) - 1)) ELSE t

\* String(number): the shortest decimal text of the value (at the model's
\* resolution of six decimal places); String(-0) is "0".
NumToString(x) ==
    IF x.k = "nan" THEN NaNText
    ELSE IF x.k = "inf" THEN (IF x.v < 0 THEN <<"-">> ELSE <<>>) \o InfinityText
    ELSE LET a == Abs(x.v)
             frac == StripZeros(PadStart(NatToText((a % Scale) \div 9), 6, "0"))
         IN  (IF x.v < 0 THEN <<"-">> ELSE <<>>)
             \o NatToText(a \div Scale)
             \o (IF frac = <<>> THEN <<>> ELSE <<".">> \o frac)

\* Math.round: the nearest integer, a tie going up.
MathRound(x) ==
    IF x.k # "num" THEN x
    ELSE Num(((x.v + Scale \div 2) \div Scale) * Scale)

----------------------------------------------------------------------------
(* Spreadsheet cells and rows (what sheet_to_json(..., {header: 1}) hands   *)
(* over): a cell is a string, a number, or undefined/null.                   *)

Str(s) == [t |-> "str", s |-> s, n |-> NaN]
NumCell(x) == [t |-> "num", s |-> <<>>, n |-> x]
Undef == [t |-> "undef", s |-> <<>>, n |-> NaN]

UndefinedText == <<"u", "n", "d", "e", "f", "i", "n", "e", "d">>

\* String(value)
CellToString(c) ==
    CASE c.t = "str" -> c.s
      [] c.t = "num" -> NumToString(c.n)
      [] c.t = "undef" -> UndefinedText

\* getCellValue(row, index): index is a zero-based column, or absent from the
\* role map (undefined).
GetCellValue(row, idx, role) ==
    IF role \notin DOMAIN idx \/ idx[role] >= Len(row) THEN <<>>
    ELSE LET value == row[idx[role] + 1]
         IN  IF value.t # "undef" THEN Trim(CellToString(value)) ELSE <<>>

\* isEmptyRow(row)
IsEmptyRow(row) ==
    \A i \in 1..Len(row) :
        row[i].t = "undef" \/ Trim(CellToString(row[i])) = <<>>

\* The role a header text is given by the strict identifyColumns, "none" if
\* no comparison matches (exact equality, tested in this order).
StrictRole(header) ==
    IF header = LabelId THEN "id"
    ELSE IF header = LabelLocation THEN "location"
    ELSE IF header = LabelLat THEN "lat"
    ELSE IF header = LabelLng THEN "lng"
    ELSE IF header = LabelElevation THEN "elevation"
    ELSE IF header = LabelRemarks THEN "remarks"
    ELSE "none"

RECURSIVE Includes(_, _, _)
\* String.prototype.includes, searching from position i.
Includes(t, p, i) ==
    IF i + Len(p) - 1 > Len(t) THEN FALSE
    ELSE StartsWith(t, p, i) \/ Includes(t, p, i + 1)

\* The substring tokens of the loose identifyColumns: "pointo" in katakana,
\* and the words for name, position and place.
TokenPoint == <<"kPO", "kI", "kN", "kTO">>
TokenPosition == <<"kICHI_pos", "kCHI">>
TokenPlace == <<"kBA", "kSHO">>

\* The role a header text is given by the loose identifyColumns.
LooseRole(header) ==
    IF Includes(header, TokenPoint, 1) THEN "id"
    ELSE IF header = LabelLat THEN "lat"
    ELSE IF header = LabelLng THEN "lng"
    ELSE IF header = LabelElevation THEN "elevation"
    ELSE IF Includes(header, LabelLocation, 1)
            \/ Includes(header, TokenPosition, 1)
            \/ Includes(header, TokenPlace, 1) THEN "location"
    ELSE "none"

HeaderRole(v, header) == IF v = "strict" THEN StrictRole(header) ELSE LooseRole(header)

\* SetRole keeping the column a role was first given.
SetRoleFirst(indexes, role, i) ==
    IF role = "none" \/ role \in DOMAIN indexes THEN indexes
    ELSE [r \in DOMAIN indexes \cup {role} |-> IF r = role THEN i ELSE indexes[r]]

\* indexes[role] = i, for a role other than "none".
SetRole(indexes, role, i) ==
    IF role = "none" THEN indexes
    ELSE [r \in DOMAIN indexes \cup {role} |-> IF r = role THEN i ELSE indexes[r]]

RECURSIVE IdentifyFrom(_, _, _, _)
\* The loop of identifyColumns from column i (zero-based) on: indexes is the
\* role map built so far, a function from the mapped roles to their column.
IdentifyFrom(v, headerRow, i, indexes) ==
    IF i >= Len(headerRow) THEN indexes
    ELSE IdentifyFrom(v, headerRow, i + 1,
                      SetRole(indexes,
                              HeaderRole(v, Trim(CellToString(headerRow[i + 1]))), i))

EmptyMap == [r \in {} |-> 0]

\* identifyColumns(headerRow)
IdentifyColumns(v, headerRow) == IdentifyFrom(v, headerRow, 0, EmptyMap)

----------------------------------------------------------------------------
(* Coordinates and elevation *)

IsDegMark(c) == c \in {DEG, K_DO}
IsMinMark(c) == c \in {"'", K_FUN}
IsSecMark(c) == c \in {"dq", K_BYOU}

RECURSIVE SecRunEnd(_, _)
\* The first position >= i of t that holds neither a digit nor a point.
SecRunEnd(t, i) ==
    IF i <= Len(t) /\ (t[i] \in Digits \/ t[i] = ".") THEN SecRunEnd(t, i + 1) ELSE i

\* The greedy runs of /(\d+)[deg]\s*(\d+)[min]\s*([\d.]+)[sec]/ when its first
\* group starts at position i: where each group and each mark would sit.
DegEnd(t, i) == DigitRunEnd(t, i)
MinStart(t, i) == SkipWs(t, DegEnd(t, i) + 1)
MinEnd(t, i) == DigitRunEnd(t, MinStart(t, i))
SecStart(t, i) == SkipWs(t, MinEnd(t, i) + 1)
SecEnd(t, i) == SecRunEnd(t, SecStart(t, i))

NoMatch == [ok |-> FALSE, deg |-> <<>>, min |-> <<>>, sec |-> <<>>]

\* Whether the expression matches with the runs a (degrees end), b..c
\* (minutes), d..e (seconds), and the groups if so.  Each repetition is
\* followed by a character outside its class, so the greedy runs are the
\* only way to match.
DmsGroups(t, i, a, b, c, d, e) ==
    IF /\ a > i /\ a <= Len(t) /\ IsDegMark(t[a])
       /\ c > b /\ c <= Len(t) /\ IsMinMark(t[c])
       /\ e > d /\ e <= Len(t) /\ IsSecMark(t[e])
    THEN [ok |-> TRUE, deg |-> SubSeq(t, i, a - 1), min |-> SubSeq(t, b, c - 1),
          sec |-> SubSeq(t, d, e - 1)]
    ELSE NoMatch

DmsAt(t, i) ==
    DmsGroups(t, i, DegEnd(t, i), MinStart(t, i), MinEnd(t, i), SecStart(t, i),
              SecEnd(t, i))

MinOf(S) == CHOOSE i \in S : \A j \in S : i <= j

DmsFirst(t, starts) == IF starts = {} THEN NoMatch ELSE DmsAt(t, MinOf(starts))

\* value.match(...): the left-most match, or none.
DmsMatch(t) == DmsFirst(t, {i \in 1..Len(t) : DmsAt(t, i).ok})

\* degrees + minutes / 60 + seconds / 3600
DmsValue(deg, min, sec) ==
    IF deg.k = "nan" \/ min.k = "nan" \/ sec.k = "nan" THEN NaN
    ELSE Num(deg.v + min.v \div 60 + sec.v \div 3600)

ParseLatLngMatch(value, dmsMatch) ==
    IF dmsMatch.ok
    THEN DmsValue(ParseFloat(dmsMatch.deg), ParseFloat(dmsMatch.min),
                  ParseFloat(dmsMatch.sec))
    ELSE ParseFloat(value)

\* parseLatLng(value) for a string value (getCellValue and the DMS formatter
\* both hand it a string).
ParseLatLng(value) == ParseLatLngMatch(value, DmsMatch(value))

\* The text `${degrees}deg${minutes}'${seconds}"${direction}` of
\* toDMSWithDirection, seconds being the number before toFixed(2).
DmsText(degrees, minutes, seconds, direction) ==
    NatToText(degrees) \o <<DEG>> \o NatToText(minutes) \o <<"'">>
    \o ToFixed(seconds, 2) \o <<"dq">> \o <<direction>>

\* minutes = Math.floor((absDecimal - degrees) * 60), rem being
\* absDecimal - degrees in fixed point; seconds = (rem - minutes / 60) * 3600.
DmsMinutes(rem) == (rem * 60) \div Scale
DmsSeconds(rem) == Num((rem * 60 - DmsMinutes(rem) * Scale) * 60)

\* toDMSWithDirection(decimal, isLongitude) for a finite decimal.
ToDMSWithDirection(decimal, isLongitude) ==
    DmsText(Abs(decimal.v) \div Scale,
            DmsMinutes(Abs(decimal.v) % Scale),
            DmsSeconds(Abs(decimal.v) % Scale),
            IF isLongitude THEN (IF decimal.v >= 0 THEN "E" ELSE "W")
            ELSE (IF decimal.v >= 0 THEN "N" ELSE "S"))

\* formatted.endsWith('.0') ? String(Math.round(numValue)) : formatted
OneDecimalText(numValue, formatted) ==
    IF EndsWith(formatted, <<".", "0">>) THEN NumToString(MathRound(numValue))
    ELSE formatted

\* formatted.endsWith('.0') ? Math.round(numValue) : parseFloat(formatted)
OneDecimalNumber(numValue, formatted) ==
    IF EndsWith(formatted, <<".", "0">>) THEN MathRound(numValue)
    ELSE ParseFloat(formatted)

\* NormalizeParsed handing numeric text back as it came.
NormalizeParsedRaw(elevation, numValue) == elevation

NormalizeParsed(elevation, numValue) ==
    IF ~IsNaN(numValue) THEN OneDecimalText(numValue, ToFixed(numValue, 1))
    ELSE elevation

\* normalizeElevation(elevation) for a string argument.
NormalizeElevation(elevation) ==
    IF elevation = <<>> THEN <<>>
    ELSE NormalizeParsed(elevation, ParseFloat(elevation))

\* !elevation for a string, a number, undefined or null
IsFalsyValue(elevation) ==
    \/ elevation.t = "undef"
    \/ elevation.t = "str" /\ elevation.s = <<>>
    \/ elevation.t = "num" /\ (IsNaN(elevation.n) \/ elevation.n = Num(0))

\* normalizeElevation(elevation) for an argument of any type: parseFloat and
\* String both work on the argument's text.
NormalizeElevationValue(elevation) ==
    IF IsFalsyValue(elevation) THEN <<>>
    ELSE NormalizeElevation(CellToString(elevation))

----------------------------------------------------------------------------
(* The waypoint store.  A waypoint is a record [oid, id, lat, lng,          *)
(* elevation, location, remarks]; oid is the identity of the JavaScript     *)
(* object (two records with equal fields are still two objects).             *)

Ids(points) == {points[i].id : i \in 1..Len(points)}
Oids(points) == {points[i].oid : i \in 1..Len(points)}

\* findIndex answering the last position that holds the id.
FindLastIndex(points, pointId) ==
    LET hits == {i \in 1..Len(points) : points[i].id = pointId}
    IN  IF hits = {} THEN 0 ELSE CHOOSE i \in hits : \A j \in hits : i >= j

\* gpsPoints.findIndex(p => p.id === pointId): the first such position, 0 if
\* there is none (JavaScript's -1).
FindIndex(points, pointId) ==
    LET hits == {i \in 1..Len(points) : points[i].id = pointId}
    IN  IF hits = {} THEN 0 ELSE CHOOSE i \in hits : \A j \in hits : i <= j

\* The objects suspended calls and loops hold (0 stands for no object).
RefOids(pend, lps) ==
    ({pend[i].oid : i \in 1..Len(pend)} \ {0})
    \cup UNION {{l.rest[i] : i \in 1..Len(l.rest)} : l \in lps}

\* The identities in use: by the store, by suspended calls and by loops.
UsedOids == Oids(gpsPoints) \cup RefOids(pending, loops)

\* A new object's identity: the least positive number not in use.
FreshOid(used) == CHOOSE n \in 1..(Cardinality(used) + 1) :
                      n \notin used /\ \A m \in 1..(n - 1) : m \in used

RECURSIVE AssignOids(_, _)
\* The records of a parse, each made a new object.
AssignOids(recs, used) ==
    IF recs = <<>> THEN <<>>
    ELSE LET o == FreshOid(used)
         IN  <<[oid |-> o, id |-> recs[1].id, lat |-> recs[1].lat,
                lng |-> recs[1].lng, elevation |-> recs[1].elevation,
                location |-> recs[1].location, remarks |-> recs[1].remarks]>>
             \o AssignOids(Tail(recs), used \cup {o})

RequiredColumns == <<"id", "location", "lat", "lng">>

RoleLabel(col) ==
    CASE col = "id" -> LabelId
      [] col = "location" -> LabelLocation
      [] col = "lat" -> LabelLat
      [] col = "lng" -> LabelLng

\* The fixed sentence that opens the strict variant's error message
\* ("required items are missing: "), as one token.
MissingPrefix == <<"msgRequiredMissing">>
Separator == <<",", " ">>

RECURSIVE Join(_, _)
\* Array.prototype.join
Join(texts, sep) ==
    IF texts = <<>> THEN <<>>
    ELSE IF Len(texts) = 1 THEN texts[1]
    ELSE texts[1] \o sep \o Join(Tail(texts), sep)

\* The end of the strict loop's body: the coordinate check and the push.
StrictRowPoint(row, idx, idValue, locationValue, lat, lng) ==
    IF IsNaN(lat) \/ IsNaN(lng) THEN <<>>
    ELSE <<[id |-> idValue, lat |-> lat, lng |-> lng,
            elevation |-> NormalizeElevation(GetCellValue(row, idx, "elevation")),
            location |-> locationValue,
            remarks |-> GetCellValue(row, idx, "remarks")]>>

\* StrictRowValues without the test of the location value.
StrictRowValuesNoLocation(row, idx, idValue, locationValue, latValue, lngValue) ==
    IF idValue = <<>> \/ latValue = <<>> \/ lngValue = <<>>
    THEN <<>>
    ELSE StrictRowPoint(row, idx, idValue, locationValue,
                        ParseLatLng(latValue), ParseLatLng(lngValue))

\* The required-values check: '' is the only falsy value getCellValue returns.
StrictRowValues(row, idx, idValue, locationValue, latValue, lngValue) ==
    IF idValue = <<>> \/ locationValue = <<>> \/ latValue = <<>> \/ lngValue = <<>>
    THEN <<>>
    ELSE StrictRowPoint(row, idx, idValue, locationValue,
                        ParseLatLng(latValue), ParseLatLng(lngValue))

\* The body of the strict loop for one data row: the record pushed, if any.
StrictRow(row, idx) ==
    IF Len(row) = 0 \/ IsEmptyRow(row) THEN <<>>
    ELSE StrictRowValues(row, idx, GetCellValue(row, idx, "id"),
                         GetCellValue(row, idx, "location"),
                         GetCellValue(row, idx, "lat"),
                         GetCellValue(row, idx, "lng"))

RECURSIVE StrictRows(_, _, _)
\* for (let i = 1; i < jsonData.length; i++): i here is the one-based row.
StrictRows(jsonData, idx, i) ==
    IF i > Len(jsonData) THEN <<>>
    ELSE StrictRow(jsonData[i], idx) \o StrictRows(jsonData, idx, i + 1)

\* MissingColumns with the test written !columnIndexes[col], which takes
\* column 0 for an unmapped role.
MissingColumnsFalsy(idx) ==
    SelectSeq(RequiredColumns, LAMBDA col : col \notin DOMAIN idx \/ idx[col] = 0)

MissingColumns(idx) == SelectSeq(RequiredColumns, LAMBDA col : col \notin DOMAIN idx)

MissingNames(missingColumns) ==
    [i \in 1..Len(missingColumns) |-> RoleLabel(missingColumns[i])]

StrictParseWith(jsonData, idx, missingColumns) ==
    IF Len(missingColumns) > 0
    THEN [threw |-> TRUE,
          msg |-> MissingPrefix \o Join(MissingNames(missingColumns), Separator),
          recs |-> <<>>]
    ELSE [threw |-> FALSE, msg |-> <<>>, recs |-> StrictRows(jsonData, idx, 2)]

StrictParseColumns(jsonData, idx) == StrictParseWith(jsonData, idx, MissingColumns(idx))

\* parseExcelData of the strict variant: what it throws (if it does) and the
\* records it leaves in gpsPoints.
StrictParse(jsonData) ==
    IF Len(jsonData) < 2 THEN [threw |-> FALSE, msg |-> <<>>, recs |-> <<>>]
    ELSE StrictParseColumns(jsonData, IdentifyColumns("strict", jsonData[1]))

\* !columnIndexes.x : undefined and 0 are both falsy.
Falsy(idx, role) == role \notin DOMAIN idx \/ idx[role] = 0

\* The end of the loose loop's body: acc is [recs, n], the records pushed so
\* far and nextId; fresh tells that the id was drawn from the counter.
LooseRowPush(acc, fresh, point) ==
    [recs |-> IF ~IsNaN(point.lat) /\ ~IsNaN(point.lng)
              THEN Append(acc.recs, point) ELSE acc.recs,
     n |-> IF fresh THEN acc.n + 1 ELSE acc.n]

LooseRowId(row, idx, acc, idCell) ==
    LooseRowPush(acc, idCell = <<>>,
        [id |-> IF idCell = <<>> THEN <<"P">> \o NatToText(acc.n) ELSE idCell,
         lat |-> ParseLatLng(GetCellValue(row, idx, "lat")),
         lng |-> ParseLatLng(GetCellValue(row, idx, "lng")),
         elevation |-> NormalizeElevation(GetCellValue(row, idx, "elevation")),
         location |-> GetCellValue(row, idx, "location"),
         remarks |-> <<>>])

\* The body of the loose loop for one data row.
LooseRow(row, idx, acc) ==
    IF Len(row) = 0 \/ IsEmptyRow(row) THEN acc
    ELSE LooseRowId(row, idx, acc, GetCellValue(row, idx, "id"))

RECURSIVE LooseRows(_, _, _, _)
\* The loop of the loose parseExcelData from row i on.
LooseRows(jsonData, idx, i, acc) ==
    IF i > Len(jsonData) THEN acc
    ELSE LooseRows(jsonData, idx, i + 1, LooseRow(jsonData[i], idx, acc))

LooseParseColumns(jsonData, idx, n) ==
    IF Falsy(idx, "lat") \/ Falsy(idx, "lng") THEN [recs |-> <<>>, n |-> n]
    ELSE LooseRows(jsonData, idx, 2, [recs |-> <<>>, n |-> n])

\* parseExcelData of the loose variant: the records it leaves and nextId.
LooseParse(jsonData, n) ==
    IF Len(jsonData) < 2 THEN [recs |-> <<>>, n |-> n]
    ELSE LooseParseColumns(jsonData, IdentifyColumns("loose", jsonData[1]), n)

\* The suffixes of the ids of the temporary form, sorted ascending:
\* filter(/^KARI\d{2}$/).map(parseInt(id.substring(1))).sort((a, b) => a - b)
ExistingTempIds(points) ==
    LET ids == [i \in 1..Len(points) |-> points[i].id]
        temp == SelectSeq(ids, LAMBDA id :
                    Len(id) = 3 /\ id[1] = KARI /\ id[2] \in Digits /\ id[3] \in Digits)
        nums == [i \in 1..Len(temp) |-> DigitsValue(temp[i], 2, 3)]
    IN  SortSeq(nums, LAMBDA a, b : a < b)

RECURSIVE NextNum(_, _, _)
\* for (const num of existingTempIds) if (num === nextNum) nextNum++ else break
NextNum(nums, i, nextNum) ==
    IF i > Len(nums) THEN nextNum
    ELSE IF nums[i] = nextNum THEN NextNum(nums, i + 1, nextNum + 1)
    ELSE nextNum

\* generateTemporaryId()
GenerateTemporaryId(points) ==
    <<KARI>> \o PadStart(NatToText(NextNum(ExistingTempIds(points), 1, 1)), 2, "0")

\* Object.assign(point, updates): updates is a function from the supplied
\* field names to their values.
Assign(point, updates) ==
    [f \in DOMAIN point |-> IF f \in DOMAIN updates THEN updates[f] ELSE point[f]]

\* The updates as updatePoint rewrites them before the merge.
NormalizedUpdates(updates) ==
    [f \in DOMAIN updates |->
        IF f = "elevation" THEN NormalizeElevation(updates[f]) ELSE updates[f]]

\* updatePoint(pointId, updates): the store it leaves.
UpdatePoint(points, pointId, updates) ==
    LET index == FindIndex(points, pointId)
    IN  IF index # 0
        THEN [points EXCEPT ![index] = Assign(points[index], NormalizedUpdates(updates))]
        ELSE points

\* removePoint without the test index !== -1: splice(-1, 1) drops the last.
RemovePointUnchecked(points, pointId) ==
    LET index == FindIndex(points, pointId)
    IN  IF index # 0
        THEN SubSeq(points, 1, index - 1) \o SubSeq(points, index + 1, Len(points))
        ELSE SubSeq(points, 1, Len(points) - 1)

\* removePoint(pointId): the store it leaves.
RemovePoint(points, pointId) ==
    LET index == FindIndex(points, pointId)
    IN  IF index # 0
        THEN SubSeq(points, 1, index - 1) \o SubSeq(points, index + 1, Len(points))
        ELSE points

\* IsZeroNumber answering true for text that is no number.
IsZeroNumberOrNaN(numValue) == IsNaN(numValue) \/ (numValue.k = "num" /\ numValue.v = 0)

\* isNaN(numValue) ? false : numValue === 0
IsZeroNumber(numValue) ==
    IF IsNaN(numValue) THEN FALSE ELSE numValue.k = "num" /\ numValue.v = 0

\* needsElevationFromAPI(elevation): policy of the strict variant.
NeedsElevationFromAPI(elevation) ==
    IF elevation = <<>> THEN TRUE ELSE IsZeroNumber(ParseFloat(elevation))

\* !isNaN(numValue) && numValue > 0
IsPositiveNumber(numValue) == ~IsNaN(numValue) /\ numValue.v > 0

\* isPositiveElevation(elevation): policy of the loose variant.
IsPositiveElevation(elevation) ==
    IF elevation = <<>> THEN FALSE ELSE IsPositiveNumber(ParseFloat(elevation))

\* Whether ensureValidElevation goes on to the lookup for this elevation.
NeedsLookup(v, elevation) ==
    IF v = "strict" THEN NeedsElevationFromAPI(elevation)
    ELSE ~IsPositiveElevation(elevation)

----------------------------------------------------------------------------
(* The elevation service.  A response is [kind, elevation]: kind "error"    *)
(* (fetch rejects), "notok" (HTTP status not ok) or "json", with elevation  *)
(* the cell-like value of data.elevation.  A result is a number or null.    *)

Null == [k |-> "null", v |-> 0]

FetchParsed(elevation) == OneDecimalNumber(elevation, ToFixed(elevation, 1))

\* fetchElevationFromAPI / ElevationAPI.fetchElevation, from the response.
FetchElevation(response) ==
    IF response.kind # "json" THEN Null
    ELSE IF response.elevation.t = "undef" THEN Null
    ELSE FetchParsed(ParseFloat(CellToString(response.elevation)))

\* IsPositiveResult without the test elevation > 0.
IsNotNullResult(elevation) == elevation.k # "null"

\* elevation !== null && elevation > 0
IsPositiveResult(elevation) ==
    elevation.k # "null" /\ elevation.k # "nan" /\ elevation.v > 0

\* exportToExcel: the rows handed to the file handler.
ExportHeader ==
    <<Str(LabelId), Str(LabelLocation), Str(LabelLat), Str(LabelLng),
      Str(LabelElevation), Str(LabelRemarks)>>

\* ExportParsed writing numeric elevations as text.
ExportParsedText(elevation, numElevation) == Str(elevation)

ExportParsed(elevation, numElevation) ==
    IF ~IsNaN(numElevation)
    THEN NumCell(OneDecimalNumber(numElevation, ToFixed(numElevation, 1)))
    ELSE Str(elevation)

ExportElevation(elevation) ==
    IF elevation # <<>> THEN ExportParsed(elevation, ParseFloat(elevation))
    ELSE Str(<<>>)

\* ExportRow with the coordinates written to 4 decimal places.
ExportRowFourPlaces(point) ==
    <<Str(point.id), Str(point.location),
      NumCell(ParseFloat(ToFixed(point.lat, 4))),
      NumCell(ParseFloat(ToFixed(point.lng, 4))),
      ExportElevation(point.elevation),
      Str(point.remarks)>>

ExportRow(point) ==
    <<Str(point.id), Str(point.location),
      NumCell(ParseFloat(ToFixed(point.lat, 5))),
      NumCell(ParseFloat(ToFixed(point.lng, 5))),
      ExportElevation(point.elevation),
      Str(point.remarks)>>

ExportToExcel(points) ==
    <<ExportHeader>> \o [i \in 1..Len(points) |-> ExportRow(points[i])]

----------------------------------------------------------------------------
(* Identifier formatting (DataUtils and Validators) *)

\* The Latin letters: half-width upper and lower case, and the full-width
\* forms U+FF21..U+FF3A and U+FF41..U+FF5A (tokens "fwA".."fwZ", "fwa".."fwz").
UpperLetters ==
    <<"A", "B", "C", "D", "E", "F", "G", "H", "I", "J", "K", "L", "M",
    "N", "O", "P", "Q", "R", "S", "T", "U", "V", "W", "X", "Y", "Z">>

LowerLetters ==
    <<"a", "b", "c", "d", "e", "f", "g", "h", "i", "j", "k", "l", "m",
    "n", "o", "p", "q", "r", "s", "t", "u", "v", "w", "x", "y", "z">>

FullWidthUpper ==
    <<"fwA", "fwB", "fwC", "fwD", "fwE", "fwF", "fwG", "fwH", "fwI",
    "fwJ", "fwK", "fwL", "fwM", "fwN", "fwO", "fwP", "fwQ", "fwR", "fwS",
    "fwT", "fwU", "fwV", "fwW", "fwX", "fwY", "fwZ">>

FullWidthLower ==
    <<"fwa", "fwb", "fwc", "fwd", "fwe", "fwf", "fwg", "fwh", "fwi",
    "fwj", "fwk", "fwl", "fwm", "fwn", "fwo", "fwp", "fwq", "fwr", "fws",
    "fwt", "fwu", "fwv", "fww", "fwx", "fwy", "fwz">>

\* The digits, and the full-width digits U+FF10..U+FF19.
HalfWidthDigits == <<"0", "1", "2", "3", "4", "5", "6", "7", "8", "9">>

FullWidthDigits ==
    <<"fw0", "fw1", "fw2", "fw3", "fw4", "fw5", "fw6", "fw7", "fw8", "fw9">>

\* U+FF0D, U+2212, U+2010, U+2015
HyphenVariants == {"fw-", "minus", "hyphen", "hbar"}

\* The glyphs of the model inside [ぁ-ん], [ァ-ヶ] or [一-龯].
ScriptGlyphs ==
    {KARI, K_DO, K_FUN, K_BYOU, "kPO", "kI", "kN", "kTO", "kMEI", "kSHOU",
     "kI_lat", "kKEI", "kHYOU", "kKOU", "kBI", "kKOU_rem"}

InSeq(seq, c) == \E i \in 1..Len(seq) : seq[i] = c

IndexOf(seq, c) == CHOOSE i \in 1..Len(seq) : seq[i] = c

\* The callback of the first replace: the code point less 0xFEE0, a lower
\* case letter then upper-cased; a hyphen variant becomes "-".
ConvertChar(c) ==
    IF InSeq(FullWidthUpper, c) THEN UpperLetters[IndexOf(FullWidthUpper, c)]
    ELSE IF InSeq(FullWidthLower, c) THEN UpperLetters[IndexOf(FullWidthLower, c)]
    ELSE IF InSeq(FullWidthDigits, c) THEN HalfWidthDigits[IndexOf(FullWidthDigits, c)]
    ELSE IF c \in HyphenVariants THEN "-"
    ELSE c

\* ToUpperCase leaving lower case letters as they are.
ToUpperCaseNone(c) == c

\* The callback of the second replace: [a-z] to upper case.
ToUpperCase(c) ==
    IF InSeq(LowerLetters, c) THEN UpperLetters[IndexOf(LowerLetters, c)] ELSE c

ConvertFullWidthToHalfWidth(str) ==
    [i \in 1..Len(str) |-> ToUpperCase(ConvertChar(str[i]))]

\* /[ぁ-ん]|[ァ-ヶ]|[一-龯]/.test(converted)
HasScript(converted) == \E i \in 1..Len(converted) : converted[i] \in ScriptGlyphs

IsWhiteSpace(c) == c \in WhiteSpace

\* converted.replace(/[\s　]/g, '')
RemoveSpaces(converted) == SelectSeq(converted, LAMBDA c : ~IsWhiteSpace(c))

\* Step 3: a last digit that follows neither a hyphen nor a digit is padded.
PadSingleDigit(converted) ==
    IF /\ converted[Len(converted)] \in Digits
       /\ ~(Len(converted) >= 2 /\ converted[Len(converted) - 1] = "-")
       /\ ~(Len(converted) >= 2 /\ converted[Len(converted) - 1] \in Digits)
    THEN SubSeq(converted, 1, Len(converted) - 1)
         \o PadStart(<<converted[Len(converted)]>>, 2, "0")
    ELSE converted

\* The length of the run of upper case letters starting at i.
RECURSIVE LetterRun(_, _)
LetterRun(t, i) ==
    IF i <= Len(t) /\ InSeq(UpperLetters, t[i]) THEN 1 + LetterRun(t, i + 1) ELSE 0

\* /^([A-Z]+)(\d{1,2})$/
ShortMatch(converted, letters) ==
    /\ letters >= 1
    /\ Len(converted) - letters \in {1, 2}
    /\ \A i \in (letters + 1)..Len(converted) : converted[i] \in Digits

\* `${letters}-${numbers}`, a single digit padded with "0"
Hyphenated(converted, letters) ==
    SubSeq(converted, 1, letters) \o <<"-">>
    \o PadStart(SubSeq(converted, letters + 1, Len(converted)), 2, "0")

\* InsertHyphen never inserting one.
InsertHyphenNever(converted) == converted

\* Step 4: up to three characters without a hyphen get one before the digits.
InsertHyphen(converted) ==
    IF /\ Len(converted) <= 3
       /\ ~InSeq(converted, "-")
       /\ ShortMatch(converted, LetterRun(converted, 1))
    THEN Hyphenated(converted, LetterRun(converted, 1))
    ELSE converted

\* Steps 2 to 4.
FormatStripped(original, converted) ==
    IF converted = <<>> THEN original ELSE InsertHyphen(PadSingleDigit(converted))

\* After step 1.  Only DataUtils returns text holding kana or kanji as it is.
FormatConverted(original, converted, class) ==
    IF class = "DataUtils" /\ HasScript(converted) THEN converted
    ELSE FormatStripped(original, RemoveSpaces(converted))

FormatTrimmed(value, original, class) ==
    IF original = <<>> THEN value
    ELSE FormatConverted(original, ConvertFullWidthToHalfWidth(original), class)

\* formatPointId(value) of DataUtils and of Validators, value a string.
FormatPointId(value, class) ==
    IF value = <<>> THEN value ELSE FormatTrimmed(value, Trim(value), class)

\* /^[A-Z]-\d{2}$/
IsValidPointIdFormat(value) ==
    \/ value = <<>>
    \/ Trim(value) = <<>>
    \/ /\ Len(value) = 4
       /\ InSeq(UpperLetters, value[1])
       /\ value[2] = "-"
       /\ value[3] \in Digits
       /\ value[4] \in Digits

----------------------------------------------------------------------------
(* Bounds of the model *)

\* The store holds at most MaxPoints waypoints when one is added.
MaxPoints == 3
\* At most MaxPending lookups are in flight at once.
MaxPending == 2
\* At most MaxLoops fetchMissingElevations loops run at once.
MaxLoops == 1
\* The P<n> counter is not taken past MaxNextId.
MaxNextId == 3

----------------------------------------------------------------------------
(* State bookkeeping *)

Ret(kind, val) == [kind |-> kind, val |-> val]

Hist(op, id, elev, data, res, kind, oid) ==
    [op |-> op, id |-> id, elev |-> elev, data |-> data, res |-> res,
     kind |-> kind, oid |-> oid]

AllRecs(points, det) == {points[i] : i \in 1..Len(points)} \cup det

RecOf(recs, o) == CHOOSE r \in recs : r.oid = o

\* The object a suspended call holds, as it is now.
Deref(o) == RecOf(AllRecs(gpsPoints, detached), o)

\* The held objects that the new store no longer contains.
Detach(points, pend, lps) ==
    {RecOf(AllRecs(gpsPoints, detached), o) : o \in RefOids(pend, lps) \ Oids(points)}

\* A suspended call: what it is (kind), the pointId it was given, the object
\* it holds (ensureValidElevation's point; 0 for the re-fetch after a drag,
\* which holds none) and the loop awaiting it (0 if none).  The coordinates sent to
\* the service are not kept: the answer is any answer the service can give.
Entry(kind, pointId, oid, loop) ==
    [kind |-> kind, pointId |-> pointId, oid |-> oid, loop |-> loop]

RemoveAt(seq, i) == SubSeq(seq, 1, i - 1) \o SubSeq(seq, i + 1, Len(seq))

FreshLid(lps) == CHOOSE n \in 1..(Cardinality(lps) + 1) :
                     n \notin {l.lid : l \in lps}
                     /\ \A m \in 1..(n - 1) : m \in {l.lid : l \in lps}

\* TurnAt issuing the lookup of the next waypoint without awaiting the first.
TurnAtUnawaited(v, points, rest, lid, pointId, index) ==
    IF index = 0 \/ ~NeedsLookup(v, points[index].elevation)
    THEN [loop |-> {[lid |-> lid, rest |-> Tail(rest), phase |-> "delay"]},
          req |-> <<>>]
    ELSE [loop |-> {[lid |-> lid, rest |-> Tail(rest), phase |-> "lookup"]},
          req |-> <<Entry("ensure", pointId, points[index].oid, lid),
                    Entry("ensure", pointId, points[index].oid, lid)>>]

TurnAt(v, points, rest, lid, pointId, index) ==
    IF index = 0 \/ ~NeedsLookup(v, points[index].elevation)
    THEN [loop |-> {[lid |-> lid, rest |-> Tail(rest), phase |-> "delay"]},
          req |-> <<>>]
    ELSE [loop |-> {[lid |-> lid, rest |-> Tail(rest), phase |-> "lookup"]},
          req |-> <<Entry("ensure", pointId, points[index].oid, lid)>>]

TurnFor(v, points, rest, lid, pointId) ==
    TurnAt(v, points, rest, lid, pointId, FindIndex(points, pointId))

\* One turn of the for-loop of fetchMissingElevations, up to its next await:
\* the loop has ended (rest is empty), or ensureValidElevation(point.id) is
\* called for the next held object and either returns at once (the loop then
\* waits for its timer) or suspends on the lookup.
\* recs are the objects as they are when the turn runs.
Turn(v, points, recs, rest, lid) ==
    IF rest = <<>> THEN [loop |-> {}, req |-> <<>>]
    ELSE TurnFor(v, points, rest, lid, RecOf(recs, rest[1]).id)

\* gpsPoints.filter(point => !isPositiveElevation(point.elevation)), as the
\* identities of the objects kept.
NeedingElevation(points) ==
    LET need == SelectSeq(points, LAMBDA point : ~IsPositiveElevation(point.elevation))
    IN  [i \in 1..Len(need) |-> need[i].oid]

----------------------------------------------------------------------------
(* Operations *)

\* The strict loadExcelFile with parseExcelData's outcome r and the objects
\* it created.
LoadStrictPoints(jsonData, op, r, points) ==
    /\ gpsPoints' = points
    /\ ret' = IF r.threw THEN Ret("throw", r.msg)
              ELSE Ret("count", NatToText(Len(points)))
    /\ detached' = Detach(points, pending, loops)
    /\ hist' = Hist(op, <<>>, <<>>, jsonData, Null, "", 0)
    /\ UNCHANGED <<variant, nextId, pending, loops, pmVars>>

\* LoadStrict keeping the waypoints the store held before the parse.
LoadStrictAppend(jsonData, op, r) ==
    LoadStrictPoints(jsonData, op, r, gpsPoints \o AssignOids(r.recs, UsedOids))

LoadStrict(jsonData, op, r) ==
    LoadStrictPoints(jsonData, op, r, AssignOids(r.recs, RefOids(pending, loops)))

\* The loose loadExcelFile: the parse, then fetchMissingElevations() runs up
\* to its first await (turn t).
LoadLooseTurn(jsonData, op, n, points, t) ==
    /\ n <= MaxNextId
    /\ Cardinality(loops) < MaxLoops
    /\ Len(pending) < MaxPending
    /\ gpsPoints' = points
    /\ nextId' = n
    /\ loops' = loops \cup t.loop
    /\ pending' = pending \o t.req
    /\ ret' = Ret("count", NatToText(Len(points)))
    /\ detached' = Detach(points, pending', loops')
    /\ hist' = Hist(op, <<>>, <<>>, jsonData, Null, "", 0)
    /\ UNCHANGED <<variant, pmVars>>

LoadLoosePoints(jsonData, op, n, points) ==
    LoadLooseTurn(jsonData, op, n, points,
                  Turn(variant, points, AllRecs(points, {}), NeedingElevation(points),
                       FreshLid(loops)))

LoadLoose(jsonData, op, r) ==
    LoadLoosePoints(jsonData, op, r.n, AssignOids(r.recs, RefOids(pending, loops)))

\* loadExcelFile(file) once the file handler has resolved with jsonData:
\* parseExcelData(jsonData), and in the loose variant the start of
\* fetchMissingElevations().  op is the name recorded in hist.
Load(jsonData, op) ==
    IF variant = "strict" THEN LoadStrict(jsonData, op, StrictParse(jsonData))
    ELSE LoadLoose(jsonData, op, LooseParse(jsonData, nextId))

LoadExcelFile(jsonData) == Load(jsonData, "parse")

\* exportToExcel() followed by loadExcelFile of the file written, the
\* spreadsheet container handing back the rows it was given.
ReimportExported ==
    /\ variant = "strict"
    /\ Load(ExportToExcel(gpsPoints), "reimport")

\* this.gpsPoints.push(point); return point
PushPoint(id, elevation, point) ==
    /\ gpsPoints' = Append(gpsPoints, point)
    /\ ret' = Ret("point", point.id)
    /\ hist' = Hist("add", id, elevation, <<>>, Null, "", point.oid)
    /\ UNCHANGED <<variant, nextId, pending, loops, detached, pmVars>>

Push(id, elevation, point) ==
    /\ Len(gpsPoints) < MaxPoints
    /\ PushPoint(id, elevation, point)

\* The point object that addPoint builds.
NewPoint(lat, lng, id, elevation, location, remarks) ==
    [oid |-> FreshOid(UsedOids),
     id |-> IF id # <<>> THEN id ELSE GenerateTemporaryId(gpsPoints),
     lat |-> lat, lng |-> lng,
     elevation |-> NormalizeElevation(elevation),
     location |-> location,
     remarks |-> IF variant = "strict" THEN remarks ELSE <<>>]

\* addPoint(lat, lng, id, elevation, location, remarks); an empty id stands
\* for the argument left out (id || generateTemporaryId()).
AddPoint(lat, lng, id, elevation, location, remarks) ==
    Push(id, elevation, NewPoint(lat, lng, id, elevation, location, remarks))

\* updatePoint(pointId, updates), as PointManager calls it for a form edit
\* (id, elevation, location, remarks) and for a move (lat, lng).
UpdatePointOp(pointId, updates) ==
    LET index == FindIndex(gpsPoints, pointId)
    IN  /\ gpsPoints' = UpdatePoint(gpsPoints, pointId, updates)
        /\ ret' = IF index # 0 THEN Ret("point", gpsPoints'[index].id)
                  ELSE Ret("null", <<>>)
        /\ hist' = Hist("update", pointId,
                        IF "elevation" \in DOMAIN updates THEN updates.elevation ELSE <<>>,
                        <<updates>>, Null, "",
                        IF index # 0 THEN gpsPoints[index].oid ELSE 0)
        /\ UNCHANGED <<variant, nextId, pending, loops, detached, pmVars>>

\* removePoint(pointId)
RemovePointOp(pointId) ==
    LET index == FindIndex(gpsPoints, pointId)
        points == RemovePoint(gpsPoints, pointId)
    IN  /\ gpsPoints' = points
        /\ ret' = IF index # 0 THEN Ret("point", pointId) ELSE Ret("null", <<>>)
        /\ detached' = Detach(points, pending, loops)
        /\ hist' = Hist("remove", pointId, <<>>, <<>>, Null, "",
                        IF index # 0 THEN gpsPoints[index].oid ELSE 0)
        /\ UNCHANGED <<variant, nextId, pending, loops, pmVars>>

\* exportToExcel(): the rows handed to the file handler.
ExportOp ==
    /\ ret' = Ret("rows", ExportToExcel(gpsPoints))
    /\ hist' = Hist("export", <<>>, <<>>, <<>>, Null, "", 0)
    /\ UNCHANGED <<variant, gpsPoints, nextId, pending, loops, detached, pmVars>>

\* ensureValidElevation(pointId) up to its await: it returns at once (the
\* point is unknown, or its elevation needs no lookup) or issues the lookup.
EnsureValidElevation(pointId) ==
    LET index == FindIndex(gpsPoints, pointId)
    IN  /\ hist' = Hist("ensure", pointId, <<>>, <<>>, Null, "",
                        IF index # 0 THEN gpsPoints[index].oid ELSE 0)
        /\ IF index = 0
           THEN /\ ret' = Ret("null", <<>>)
                /\ UNCHANGED pending
           ELSE IF ~NeedsLookup(variant, gpsPoints[index].elevation)
           THEN /\ ret' = Ret("value", gpsPoints[index].elevation)
                /\ UNCHANGED pending
           ELSE /\ Len(pending) < MaxPending
                /\ pending' = Append(pending, Entry("ensure", pointId, gpsPoints[index].oid, 0))
                /\ ret' = Ret("await", <<>>)
        /\ UNCHANGED <<variant, gpsPoints, nextId, loops, detached, pmVars>>

\* stopDragging() up to its await: updatePointPosition(pointId, lat, lng),
\* then fetchAndUpdateElevationAfterDrag issues its lookup.
StopDragging(pointId, lat, lng) ==
    LET index == FindIndex(gpsPoints, pointId)
    IN  /\ index # 0
        /\ Len(pending) < MaxPending
        /\ gpsPoints' = UpdatePoint(gpsPoints, pointId, [lat |-> lat, lng |-> lng])
        /\ pending' = Append(pending, Entry("drag", pointId, 0, 0))
        /\ ret' = Ret("await", <<>>)
        /\ hist' = Hist("dragStop", pointId, <<>>, <<>>, Null, "drag",
                        gpsPoints[index].oid)
        /\ UNCHANGED <<variant, nextId, loops, detached, pmVars>>

\* The lookup of pending[i] answers with response and the suspended call
\* runs on: the rest of ensureValidElevation (and the loop that awaited it
\* goes on to its timer), or the rest of fetchAndUpdateElevationAfterDrag.
Resume(i, e, elevation, write) ==
    /\ gpsPoints' = IF write
                    THEN UpdatePoint(gpsPoints, e.pointId,
                                     [elevation |-> NumToString(elevation)])
                    ELSE gpsPoints
    /\ pending' = RemoveAt(pending, i)
    /\ loops' = {IF l.lid = e.loop THEN [l EXCEPT !.phase = "delay"] ELSE l : l \in loops}
    /\ ret' = IF e.kind = "drag" THEN Ret("none", <<>>)
              ELSE IF write THEN Ret("value", NumToString(elevation))
              ELSE Ret("value", Deref(e.oid).elevation)
    /\ detached' = Detach(gpsPoints', pending', loops')
    /\ hist' = Hist("lookupReturn", e.pointId, <<>>, <<>>, elevation, e.kind, e.oid)
    /\ UNCHANGED <<variant, nextId, pmVars>>

\* ensureValidElevation writes when elevation !== null && elevation > 0;
\* fetchAndUpdateElevationAfterDrag writes when elevation !== null.
ResumeWith(i, e, elevation) ==
    Resume(i, e, elevation,
           IF e.kind = "ensure" THEN IsPositiveResult(elevation)
           ELSE elevation.k # "null")

LookupReturn(i, response) == ResumeWith(i, pending[i], FetchElevation(response))

TimerTurn(l, t) ==
    /\ l.phase = "delay"
    /\ Len(pending) + Len(t.req) <= MaxPending
    /\ loops' = (loops \ {l}) \cup t.loop
    /\ pending' = pending \o t.req
    /\ detached' = Detach(gpsPoints, pending', loops')
    /\ hist' = Hist("timer", <<>>, <<>>, <<>>, Null, "", 0)
    /\ UNCHANGED <<variant, gpsPoints, nextId, ret, pmVars>>

\* The 100 ms timer of a fetchMissingElevations loop fires: its next turn.
TimerFire(l) ==
    TimerTurn(l, Turn(variant, gpsPoints, AllRecs(gpsPoints, detached), l.rest, l.lid))

\* No id (null) and no marker (null).
NullId == <<"null">>
NoMarker == 0

\* The PointManager as its constructor leaves it, over an empty form.
InitPm ==
    /\ markers = {}
    /\ selectedMarker = NoMarker
    /\ selectedPointId = NullId
    /\ isAddingPoint = FALSE
    /\ isMovingPoint = FALSE
    /\ isDragging = FALSE
    /\ draggingMarker = NoMarker
    /\ draggingPointId = NullId
    /\ pointIdField = <<>>

InitState(v) ==
    /\ variant = v
    /\ gpsPoints = <<>>
    /\ nextId = 1
    /\ pending = <<>>
    /\ loops = {}
    /\ detached = {}
    /\ InitPm
    /\ ret = Ret("none", <<>>)
    /\ hist = Hist("init", <<>>, <<>>, <<>>, Null, "", 0)

----------------------------------------------------------------------------
(* Inputs *)

\* Import tables have at most MaxRows data rows.
MaxRows == 2

SeqsUpTo(S, n) == UNION {[1..k -> S] : k \in 0..n}

T_A01 == <<"A", "-", "0", "1">>
T_A02 == <<"A", "-", "0", "2">>
T_A03 == <<"A", "-", "0", "3">>
T_A04 == <<"A", "-", "0", "4">>
T_Kari00 == <<KARI, "0", "0">>
T_Kari01 == <<KARI, "0", "1">>
T_Kari02 == <<KARI, "0", "2">>
T_Name == <<"T">>
T_348 == <<"3", "4", ".", "8">>
T_1354 == <<"1", "3", "5", ".", "4">>
T_1230 == <<"1", "2", "3", ".", "0">>
T_123 == <<"1", "2", "3">>
T_abc == <<"a", "b", "c">>
\* 34 deg 30 ' 15.5 " N
T_Dms == <<"3", "4", DEG, "3", "0", "'", "1", "5", ".", "5", "dq", "N">>
T_135123456 == <<"1", "3", "5", ".", "1", "2", "3", "4", "5", "6">>

HeaderFull == ExportHeader
\* lat in column 0, no elevation and no remarks column, labels padded
HeaderPermuted ==
    <<Str(LabelLat), Str(<<" ">> \o LabelLng \o <<"fwsp">>), Str(LabelId),
      Str(LabelLocation)>>
HeaderNoLng ==
    <<Str(LabelId), Str(LabelLocation), Str(LabelLat), Str(<<"x">>),
      Str(LabelElevation), Str(LabelRemarks)>>
HeaderNoIdNoLat ==
    <<Str(<<"I", "D">>), Str(LabelLocation), Undef, Str(LabelLng)>>
HeaderNone == <<Str(<<"a">>), Str(<<"b">>)>>
HeaderNoLocation == <<Str(LabelId), Str(LabelLat), Str(LabelLng)>>

GoodHeaders == {HeaderFull, HeaderPermuted}
BadHeaders == {HeaderNoLng, HeaderNoIdNoLat, HeaderNone, HeaderNoLocation}

ParseRows ==
    { <<Str(T_A01), Str(T_Name), Str(T_348), Str(T_1354), Str(T_1230), Str(<<>>)>>,
      <<>>,
      <<Str(<<>>), Str(<<" ">>), Undef>>,
      <<Str(T_A02), Str(<<" ">>), Str(T_348), Str(T_1354)>>,
      <<Str(T_A02), Str(T_Name), Str(T_abc), Str(T_1354)>>,
      <<Str(T_A03), Str(T_Name), Str(T_Dms), Str(T_135123456), Str(T_abc), Str(<<"r">>)>>,
      <<Str(T_A04), Str(T_Name), Str(T_348)>>,
      <<Str(T_348), Str(T_1354), Str(T_A02), Str(T_Name)>> }

ParseTables ==
    {<<>>}
    \cup {<<h>> \o rows : h \in GoodHeaders, rows \in SeqsUpTo(ParseRows, MaxRows)}
    \cup {<<h>> \o rows : h \in BadHeaders, rows \in SeqsUpTo(ParseRows, 1)}

----------------------------------------------------------------------------
(* SpecParse: the strict variant's import, and export followed by import.   *)

ParseImport == \E jsonData \in ParseTables : LoadExcelFile(jsonData)

ParseReimport == ReimportExported

InitParse == InitState("strict")

NextParse == ParseImport \/ ParseReimport

SpecParse == InitParse /\ [][NextParse]_vars

----------------------------------------------------------------------------
(* Spec: the strict store under import, map clicks, form edits of the id,   *)
(* moves and removals.                                                      *)

T_Infinity == InfinityText

StoreRow(id, lat) == <<Str(id), Str(T_Name), Str(lat), Str(T_1354)>>

StoreRows ==
    {StoreRow(T_A01, T_348), StoreRow(T_A02, T_Infinity), StoreRow(T_A03, T_abc)}

StoreTables == {<<HeaderFull>> \o rows : rows \in SeqsUpTo(StoreRows, MaxRows)}

\* Where the map is clicked and where a marker is dropped: 35.0, 135.5.
ClickLat == Num(35 * Scale)
ClickLng == Num(135 * Scale + Scale \div 2)

EditIds == {T_A01, T_Kari00}

Import == \E jsonData \in StoreTables : LoadExcelFile(jsonData)

\* PointManager.addPointAtLocation: addPoint(latlng.lat, latlng.lng)
AddAtClick == AddPoint(ClickLat, ClickLng, <<>>, <<>>, <<>>, <<>>)

\* addPoint with an id supplied by the caller
AddWithId == AddPoint(ClickLat, ClickLng, T_A01, <<>>, <<>>, <<>>)

\* PointManager.updateSelectedPointInfo with the id field edited: the other
\* fields hold what the form shows for the selected point.
EditId ==
    \E i \in 1..Len(gpsPoints), id \in EditIds :
        UpdatePointOp(gpsPoints[i].id,
                      [id |-> id, elevation |-> gpsPoints[i].elevation,
                       location |-> gpsPoints[i].location,
                       remarks |-> gpsPoints[i].remarks])

\* PointManager.updatePointPosition
Move ==
    \E pointId \in Ids(gpsPoints) :
        UpdatePointOp(pointId, [lat |-> ClickLat, lng |-> ClickLng])

Remove == \E pointId \in Ids(gpsPoints) : RemovePointOp(pointId)

Init == InitState("strict")

Next == Import \/ AddAtClick \/ AddWithId \/ EditId \/ Move \/ Remove

Spec == Init /\ [][Next]_vars

----------------------------------------------------------------------------
(* SpecElev: both variants of the store under import, form edits of the     *)
(* elevation, enrichment requests, drags, answers of the elevation service  *)
(* and the timers of the bulk loop.                                         *)

\* SpecElev adds a waypoint only to a store of fewer than MaxElevPoints.
MaxElevPoints == 1

T_0 == <<"0">>
T_neg5 == <<"-", "5">>
T_1234sp == <<" ", "1", "2", ".", "3", "4">>
T_dashes == <<"-", "-", "-", "-", "-">>

ElevCells == {<<>>, T_0, T_1230, T_neg5, T_abc}

ElevRow(id, elevation) ==
    <<Str(id), Str(T_Name), Str(T_348), Str(T_1354), Str(elevation)>>

ElevTables == {<<HeaderFull, ElevRow(T_A01, e)>> : e \in ElevCells}


T_spInfinity == <<" ">> \o InfinityText

EditElevs == {<<>>, T_abc, T_1234sp, T_spInfinity}

\* What the elevation service may answer.
Responses ==
    {[kind |-> "error", elevation |-> Undef],
     [kind |-> "notok", elevation |-> Undef],
     [kind |-> "json", elevation |-> Undef],
     [kind |-> "json", elevation |-> Str(T_dashes)],
     [kind |-> "json", elevation |-> NumCell(Num(0))],
     [kind |-> "json", elevation |-> NumCell(Num(0 - 3 * Scale))],
     [kind |-> "json", elevation |-> NumCell(Num(12 * Scale + 34 * (Scale \div 100)))]}

UnknownId == T_A04

ElevImport == \E jsonData \in ElevTables : LoadExcelFile(jsonData)

ElevAdd ==
    /\ Len(gpsPoints) < MaxElevPoints
    /\ \E elevation \in EditElevs :
           AddPoint(ClickLat, ClickLng, <<>>, elevation, <<>>, <<>>)

\* PointManager.updateSelectedPointInfo with the elevation field edited.
EditElevation ==
    \E i \in 1..Len(gpsPoints), elevation \in EditElevs :
        UpdatePointOp(gpsPoints[i].id,
                      [id |-> gpsPoints[i].id, elevation |-> elevation,
                       location |-> gpsPoints[i].location,
                       remarks |-> gpsPoints[i].remarks])

Ensure == \E pointId \in Ids(gpsPoints) \cup {UnknownId} : EnsureValidElevation(pointId)

Drag == \E pointId \in Ids(gpsPoints) : StopDragging(pointId, ClickLat, ClickLng)

Answer == \E i \in 1..Len(pending), response \in Responses : LookupReturn(i, response)

Timer == \E l \in loops : TimerFire(l)

NextElev == ElevImport \/ ElevAdd \/ EditElevation \/ Ensure \/ Drag \/ Answer

InitElev == InitState("strict")

SpecElev == InitElev /\ [][NextElev]_vars

----------------------------------------------------------------------------
(* SpecEnsure: ensureValidElevation in both variants, on stores built by    *)
(* import, map clicks and form edits, with the answers of the elevation     *)
(* service, the bulk loop of the loose variant and its timers.              *)

InitEnsure == \E v \in {"strict", "loose"} : InitState(v)

NextEnsure == ElevImport \/ ElevAdd \/ EditElevation \/ Ensure \/ Answer \/ Timer

SpecEnsure == InitEnsure /\ [][NextEnsure]_vars

----------------------------------------------------------------------------
(* SpecDms: the coordinate display of PointManager (toDMSWithDirection) fed *)
(* back to the coordinate parser.                                           *)

\* Fractions of a degree, in fixed point: 0, 0.000001, 0.016667, 0.123456,
\* 0.5, 0.504305, 0.75, 0.999999.
DmsFractions ==
    {0, 9, 16667 * 9, 123456 * 9, Scale \div 2, 504305 * 9, 3 * (Scale \div 4),
     999999 * 9}

LatDegrees == {0, 35, 89}
LngDegrees == {0, 35, 89, 135, 179}

Decimals(degrees, limit) ==
    {Num(sign * (deg * Scale + f)) : sign \in {0 - 1, 1}, deg \in degrees, f \in DmsFractions}
    \cup {Num(limit * Scale), Num(0 - limit * Scale)}

Latitudes == Decimals(LatDegrees, 90)
Longitudes == Decimals(LngDegrees, 180)

\* The text shown in the coordinate field is parsed back: hist keeps the
\* decimal displayed (data) and the number parsed (res), ret the text.
DisplayAndParse(decimal, isLongitude) ==
    /\ ret' = Ret("text", ToDMSWithDirection(decimal, isLongitude))
    /\ hist' = Hist("dms", <<>>, <<>>, <<decimal>>, ParseLatLng(ret'.val),
                    IF isLongitude THEN "lng" ELSE "lat", 0)
    /\ UNCHANGED <<variant, gpsPoints, nextId, pending, loops, detached, pmVars>>

DisplayLatitude == \E decimal \in Latitudes : DisplayAndParse(decimal, FALSE)

DisplayLongitude == \E decimal \in Longitudes : DisplayAndParse(decimal, TRUE)

InitDms == InitState("strict")

NextDms == DisplayLatitude \/ DisplayLongitude

SpecDms == InitDms /\ [][NextDms]_vars

----------------------------------------------------------------------------
(* SpecStore: updatePoint, removePoint and exportToExcel on an imported     *)
(* store (strict variant), ids that no waypoint has included.               *)

\* Partial updates: an elevation, an id with a location, a position.
StoreUpdates ==
    {[elevation |-> T_1234sp],
     [elevation |-> T_abc],
     [id |-> T_A02, location |-> <<"U">>],
     [lat |-> ClickLat, lng |-> ClickLng]}

StoreUpdate ==
    \E pointId \in Ids(gpsPoints) \cup {UnknownId}, updates \in StoreUpdates :
        UpdatePointOp(pointId, updates)

StoreRemove ==
    \E pointId \in Ids(gpsPoints) \cup {UnknownId} : RemovePointOp(pointId)

Export == ExportOp

InitStore == InitState("strict")

NextStore == Import \/ StoreUpdate \/ StoreRemove \/ Export

SpecStore == InitStore /\ [][NextStore]_vars

----------------------------------------------------------------------------
(* SpecLoose: the loose import, with lat or lng in any column or in none,   *)
(* and the elevation loop it starts.                                        *)

\* lng in column 0, lat in column 1
HeaderLngFirst == <<Str(LabelLng), Str(LabelLat), Str(LabelId)>>

LooseHeaders ==
    {HeaderFull, HeaderPermuted, HeaderLngFirst, HeaderNoLng, HeaderNoIdNoLat}

\* A row laid out for HeaderFull, one for the headers that start with the
\* coordinates, an empty row and a row without an id.
LooseDataRows ==
    { <<Str(T_A01), Str(T_Name), Str(T_348), Str(T_1354), Str(T_1230), Str(<<>>)>>,
      <<Str(T_348), Str(T_1354), Str(T_A02), Str(T_Name)>>,
      <<>>,
      <<Str(<<>>), Str(T_Name), Str(T_348), Str(T_1354)>> }

LooseTables ==
    {<<h>> \o rows : h \in LooseHeaders, rows \in SeqsUpTo(LooseDataRows, MaxRows)}

LooseImport == \E jsonData \in LooseTables : LoadExcelFile(jsonData)

InitLoose == InitState("loose")

NextLoose == LooseImport \/ Answer \/ Timer

SpecLoose == InitLoose /\ [][NextLoose]_vars

----------------------------------------------------------------------------
(* SpecLoop: SpecLoose with the scheduling the loop relies on: every timer  *)
(* fires and the service answers every lookup (fetch resolves or rejects).  *)

\* The lookups in flight that loop lid awaits.
AwaitedBy(pend, lid) == {i \in 1..Len(pend) : pend[i].loop = lid}

\* The timer of loop lid fires.
TimerOf(lid) == \E l \in loops : l.lid = lid /\ TimerFire(l)

\* The lookup that loop lid awaits is answered.
AnswerOf(lid) ==
    \E i \in AwaitedBy(pending, lid), response \in Responses : LookupReturn(i, response)

\* Weak fairness of AnswerOf(lid).  It is enabled exactly when the loop
\* awaits a lookup, so ENABLED <<AnswerOf(lid)>>_vars is written that way.
AnswerFairness(lid) ==
    []<>(AwaitedBy(pending, lid) = {}) \/ []<><<AnswerOf(lid)>>_vars

SpecLoop ==
    /\ InitLoose /\ [][NextLoose]_vars
    /\ \A lid \in 1..MaxLoops : WF_vars(TimerOf(lid)) /\ AnswerFairness(lid)

----------------------------------------------------------------------------
(* SpecTemp: addPoint(lat, lng) called again and again on a store that      *)
(* starts empty, every id being a generated temporary id.                   *)

\* The number of waypoints added.
MaxTempPoints == 101

AddTemporary ==
    /\ Len(gpsPoints) < MaxTempPoints
    /\ PushPoint(<<>>, <<>>, NewPoint(ClickLat, ClickLng, <<>>, <<>>, <<>>, <<>>))

InitTemp == InitState("strict")

NextTemp == AddTemporary

SpecTemp == InitTemp /\ [][NextTemp]_vars

----------------------------------------------------------------------------
(* The handlers of app.js and PointManager over the strict store: import,   *)
(* the add, move and delete buttons, clicks on the map and on markers, the  *)
(* mouse during a drag, the id field of the form, the Escape key, and the   *)
(* answers of the elevation service to the suspended handlers.              *)
(* Marker clicks and mousedowns are taken on markers whose waypoint is in   *)
(* the store, and the mouse is released over a marker still in the Map.     *)
(* SpecUi: import, adding by a click, selecting, deleting, the id field.    *)
(* SpecAdd: the adding mode.  SpecDrag: the moving mode and the drag.       *)

\* The store holds at most MaxUiPoints waypoints when the map is clicked.
MaxUiPoints == 2

\* A second place on the map (36.0, 136.0); the places of the model are
\* farther apart on screen than the proximity threshold.
DropLat == Num(36 * Scale)
DropLng == Num(136 * Scale)

ClickPlace == [lat |-> ClickLat, lng |-> ClickLng]

MapPlaces == {ClickPlace, [lat |-> DropLat, lng |-> DropLng]}

\* The imported waypoint A-01 (34.8, 135.4) has an elevation, so that
\* selecting it starts no lookup.
UiRow == <<Str(T_A01), Str(T_Name), Str(T_348), Str(T_1354), Str(T_123)>>

UiTable == <<HeaderFull, UiRow>>

UiTables == {UiTable, <<HeaderNoLng, UiRow>>}

\* The service answers 12.34.
LookupOk == [kind |-> "json", elevation |-> NumCell(Num(12 * Scale + 34 * (Scale \div 100)))]

UiResponses == {[kind |-> "error", elevation |-> Undef], LookupOk}

UiIds == {T_abc}

\* A marker on the map: the key it has in the Map, the point object it was
\* made for and its handlers closed over (every point object gets one marker,
\* so that the object's identity stands for the marker's), and where it is
\* displayed.
Marker(key, oid, lat, lng) == [key |-> key, oid |-> oid, lat |-> lat, lng |-> lng]

MarkerOids == {m.oid : m \in markers}

\* The objects whose markers the Map or a field of PointManager refers to.
HeldMarkers == MarkerOids \cup ({selectedMarker, draggingMarker} \ {NoMarker})

\* markers.get(id): its result when the key is present
MarkerGet(ms, id) == CHOOSE m \in ms : m.key = id

\* markers.has(id)
MarkerHas(ms, id) == \E m \in ms : m.key = id

\* markers.set(id, marker)
MarkerSet(ms, marker) == {m \in ms : m.key # marker.key} \cup {marker}

\* markers.delete(id)
MarkerDelete(ms, id) == {m \in ms : m.key # id}

\* The point object a marker's handlers closed over, as it is in the store.
PointOf(m) == gpsPoints[CHOOSE i \in 1..Len(gpsPoints) : gpsPoints[i].oid = m.oid]

\* if (id): neither null nor the empty string
Truthy(id) == id # NullId /\ id # <<>>

\* displayAllPoints after clearAllMarkers: addMarkerForPoint for every point.
RECURSIVE AddMarkers(_, _)
AddMarkers(points, ms) ==
    IF points = <<>> THEN ms
    ELSE AddMarkers(Tail(points),
                    MarkerSet(ms, Marker(points[1].id, points[1].oid,
                                         points[1].lat, points[1].lng)))

\* hasPointNearLocation(lat, lng)
HasPointNearLocation(lat, lng) == \E m \in markers : m.lat = lat /\ m.lng = lng

\* The change handler of the file input, once the file handler has handed
\* over the rows: loadExcelFile, then displayAllPoints unless it threw.
ImportFile(jsonData) ==
    LET r == StrictParse(jsonData)
        points == AssignOids(r.recs, RefOids(pending, loops) \cup HeldMarkers)
    IN  /\ gpsPoints' = points
        /\ detached' = Detach(points, pending, loops)
        /\ ret' = IF r.threw THEN Ret("throw", r.msg)
                  ELSE Ret("count", NatToText(Len(points)))
        /\ hist' = Hist("import", <<>>, <<>>, <<>>, Null, "", 0)
        /\ IF r.threw
           THEN UNCHANGED <<markers, selectedMarker, selectedPointId>>
           ELSE /\ markers' = AddMarkers(points, {})
                /\ selectedMarker' = NoMarker
                /\ selectedPointId' = NullId
        /\ UNCHANGED <<variant, nextId, pending, loops, isAddingPoint, isMovingPoint,
                       isDragging, draggingMarker, draggingPointId, pointIdField>>

\* The click handler of the add button: setAddingMode(true)
PressAdd ==
    /\ isAddingPoint' = TRUE
    /\ ret' = Ret("none", <<>>)
    /\ hist' = Hist("addButton", <<>>, <<>>, <<>>, Null, "", 0)
    /\ UNCHANGED <<variant, gpsPoints, nextId, pending, loops, detached, markers,
                   selectedMarker, selectedPointId, isMovingPoint, isDragging,
                   draggingMarker, draggingPointId, pointIdField>>

\* The map's click handler in adding mode, up to its first await or to its
\* end: addPointAtLocation(e.latlng), which returns at once when a marker
\* is near, and else adds the point and its marker, selects it and calls
\* ensureValidElevation for it; setAddingMode(false) follows when nothing
\* is awaited.
ClickMap(latlng) ==
        /\ isAddingPoint
        /\ IF HasPointNearLocation(latlng.lat, latlng.lng)
           THEN /\ isAddingPoint' = FALSE
                /\ ret' = Ret("rejected", <<>>)
                /\ hist' = Hist("mapClick", <<>>, <<>>, <<>>, Null, "", 0)
                /\ UNCHANGED <<gpsPoints, pending, detached, markers, selectedMarker,
                               selectedPointId, pointIdField>>
           ELSE LET point == [oid |-> FreshOid(UsedOids \cup HeldMarkers),
                              id |-> GenerateTemporaryId(gpsPoints),
                              lat |-> latlng.lat, lng |-> latlng.lng,
                              elevation |-> NormalizeElevation(<<>>),
                              location |-> <<>>, remarks |-> <<>>]
                    marker == Marker(point.id, point.oid, point.lat, point.lng)
                    points == Append(gpsPoints, point)
                    selectedPoint == points[FindIndex(points, point.id)]
                    awaits == NeedsLookup(variant, selectedPoint.elevation)
                IN  /\ Len(gpsPoints) < MaxUiPoints
                    /\ awaits => Len(pending) < MaxPending
                    /\ gpsPoints' = points
                    /\ markers' = MarkerSet(markers, marker)
                    /\ selectedMarker' = marker.oid
                    /\ selectedPointId' = point.id
                    /\ pointIdField' = selectedPoint.id
                    /\ pending' = IF awaits
                                  THEN Append(pending, Entry("addFirst", point.id, point.oid, 0))
                                  ELSE pending
                    /\ isAddingPoint' = awaits
                    /\ detached' = Detach(points, pending', loops)
                    /\ ret' = Ret("point", <<>>)
                    /\ hist' = Hist("mapClick", point.id, <<>>, <<>>, Null, "", 0)
        /\ UNCHANGED <<variant, nextId, loops, isMovingPoint, isDragging, draggingMarker,
                       draggingPointId>>

\* The click handler of a marker: moving mode ends when another point than
\* the selected one is clicked, then selectPoint(point.id) up to its await.
MarkerClick ==
    \E m \in markers :
        /\ m.oid \in Oids(gpsPoints)
        /\ LET pointId == PointOf(m).id
               found == MarkerHas(markers, pointId)
               awaits == found /\ NeedsLookup(variant, gpsPoints[FindIndex(gpsPoints, pointId)].elevation)
           IN  /\ awaits => Len(pending) < MaxPending
               /\ isMovingPoint' = (isMovingPoint /\ selectedPointId = pointId)
               /\ selectedMarker' = IF found THEN MarkerGet(markers, pointId).oid
                                    ELSE selectedMarker
               /\ selectedPointId' = IF found THEN pointId ELSE selectedPointId
               /\ pointIdField' = IF found THEN pointId ELSE pointIdField
               /\ pending' = IF awaits
                             THEN Append(pending,
                                         Entry("select", pointId,
                                               gpsPoints[FindIndex(gpsPoints, pointId)].oid, 0))
                             ELSE pending
               /\ detached' = Detach(gpsPoints, pending', loops)
               /\ ret' = Ret("none", <<>>)
               /\ hist' = Hist("markerClick", <<>>, <<>>, <<>>, Null, "", 0)
        /\ UNCHANGED <<variant, gpsPoints, nextId, loops, markers, isAddingPoint,
                       isDragging, draggingMarker, draggingPointId>>

\* The click handler of the move button: setMovingMode(true) when a point
\* is selected.
PressMove ==
    /\ Truthy(selectedPointId)
    /\ isMovingPoint' = TRUE
    /\ ret' = Ret("none", <<>>)
    /\ hist' = Hist("moveButton", <<>>, <<>>, <<>>, Null, "", 0)
    /\ UNCHANGED <<variant, gpsPoints, nextId, pending, loops, detached, markers,
                   selectedMarker, selectedPointId, isAddingPoint, isDragging,
                   draggingMarker, draggingPointId, pointIdField>>

\* The mousedown handler of a marker: startDragging(marker, point.id, e) in
\* moving mode on the selected point's marker.
MouseDown ==
    \E m \in markers :
        /\ m.oid \in Oids(gpsPoints)
        /\ isMovingPoint
        /\ selectedPointId = PointOf(m).id
        /\ isDragging' = TRUE
        /\ draggingMarker' = m.oid
        /\ draggingPointId' = PointOf(m).id
        /\ ret' = Ret("none", <<>>)
        /\ hist' = Hist("mouseDown", <<>>, <<>>, <<>>, Null, "", 0)
        /\ UNCHANGED <<variant, gpsPoints, nextId, pending, loops, detached, markers,
                       selectedMarker, selectedPointId, isAddingPoint, isMovingPoint,
                       pointIdField>>

\* The map's mousemove handler during a drag: draggingMarker.setLatLng
MouseMove ==
    \E latlng \in MapPlaces :
        /\ isDragging
        /\ draggingMarker # NoMarker
        /\ draggingPointId = selectedPointId
        /\ markers' = {IF m.oid = draggingMarker
                       THEN [m EXCEPT !.lat = latlng.lat, !.lng = latlng.lng]
                       ELSE m : m \in markers}
        /\ ret' = Ret("none", <<>>)
        /\ hist' = Hist("mouseMove", <<>>, <<>>, <<>>, Null, "", 0)
        /\ UNCHANGED <<variant, gpsPoints, nextId, pending, loops, detached,
                       selectedMarker, selectedPointId, isAddingPoint, isMovingPoint,
                       isDragging, draggingMarker, draggingPointId, pointIdField>>

\* The map's mouseup handler during a drag: stopDragging() up to its await:
\* updatePointPosition with the marker's position, then the lookup of
\* fetchAndUpdateElevationAfterDrag is issued.
MouseUp ==
    \E m \in markers :
        /\ isDragging
        /\ m.oid = draggingMarker
        /\ Truthy(draggingPointId)
        /\ Len(pending) < MaxPending
        /\ gpsPoints' = UpdatePoint(gpsPoints, draggingPointId, [lat |-> m.lat, lng |-> m.lng])
        /\ pointIdField' = IF FindIndex(gpsPoints, draggingPointId) # 0
                           THEN draggingPointId ELSE pointIdField
        /\ pending' = Append(pending, Entry("dragStop", draggingPointId, 0, 0))
        /\ ret' = Ret("await", <<>>)
        /\ hist' = Hist("mouseUp", <<>>, <<>>, <<>>, Null, "", 0)
        /\ UNCHANGED <<variant, nextId, loops, detached, markers, selectedMarker,
                       selectedPointId, isAddingPoint, isMovingPoint, isDragging,
                       draggingMarker, draggingPointId>>

\* The store after the rest of ensureValidElevation (it writes a positive
\* result) or of fetchAndUpdateElevationAfterDrag (it writes any result).
AfterLookup(e, elevation) ==
    IF (IF e.kind = "dragStop" THEN elevation.k # "null" ELSE IsPositiveResult(elevation))
    THEN UpdatePoint(gpsPoints, e.pointId, [elevation |-> NumToString(elevation)])
    ELSE gpsPoints

\* The second ensureElevationIfNeeded(point) of addPointAtLocation: the
\* lookup it issues, if it issues one.
SecondLookup(e, points) ==
    LET pointId == RecOf(AllRecs(points, detached), e.oid).id
        index == FindIndex(points, pointId)
    IN  IF e.kind = "addFirst" /\ index # 0 /\ NeedsLookup(variant, points[index].elevation)
        THEN <<Entry("addSecond", pointId, e.oid, 0)>>
        ELSE <<>>

\* The lookup of pending[i] answers and the suspended handler runs on to
\* its next await or to its end: selectPoint ends; addPointAtLocation goes
\* on to its second ensureElevationIfNeeded and the click handler to
\* setAddingMode(false); stopDragging resets the drag and the moving mode.
UiLookupReturn(i, e, points, req) ==
    /\ gpsPoints' = points
    /\ pending' = RemoveAt(pending, i) \o req
    /\ detached' = Detach(points, pending', loops)
    /\ isAddingPoint' = IF e.kind \in {"addFirst", "addSecond"} /\ req = <<>>
                        THEN FALSE ELSE isAddingPoint
    /\ isMovingPoint' = IF e.kind = "dragStop" THEN FALSE ELSE isMovingPoint
    /\ isDragging' = IF e.kind = "dragStop" THEN FALSE ELSE isDragging
    /\ draggingMarker' = IF e.kind = "dragStop" THEN NoMarker ELSE draggingMarker
    /\ draggingPointId' = IF e.kind = "dragStop" THEN NullId ELSE draggingPointId
    /\ ret' = Ret("none", <<>>)
    /\ hist' = Hist("lookupReturn", <<>>, <<>>, <<>>, Null, e.kind, 0)
    /\ UNCHANGED <<variant, nextId, loops, markers, selectedMarker, selectedPointId,
                   pointIdField>>

LookupAnswers(i, response) ==
    LET points == AfterLookup(pending[i], FetchElevation(response))
    IN  UiLookupReturn(i, pending[i], points, SecondLookup(pending[i], points))

\* The click handler of the delete button, the confirmation accepted:
\* deleteSelectedPoint()
DeleteSelected ==
    /\ Truthy(selectedPointId)
    /\ markers' = MarkerDelete(markers, selectedPointId)
    /\ gpsPoints' = RemovePoint(gpsPoints, selectedPointId)
    /\ detached' = Detach(gpsPoints', pending, loops)
    /\ selectedMarker' = NoMarker
    /\ selectedPointId' = NullId
    /\ pointIdField' = <<>>
    /\ ret' = Ret("none", <<>>)
    /\ hist' = Hist("delete", <<>>, <<>>, <<>>, Null, "", 0)
    /\ UNCHANGED <<variant, nextId, pending, loops, isAddingPoint, isMovingPoint,
                   isDragging, draggingMarker, draggingPointId>>

\* What updateSelectedPointInfo works on: the store, the Map, the selection
\* and the id field.
Form(points, ms, selected, field) ==
    [points |-> points, markers |-> ms, selected |-> selected, field |-> field]

\* updateSelectedPointInfo(): updatePoint(selectedPointId, updates) with the
\* id of the field, the other fields holding what the form shows for the
\* selected point; the marker is filed under the new id when the id changed.
UpdateSelectedPointInfo(f) ==
    IF ~Truthy(f.selected) THEN f
    ELSE LET index == FindIndex(f.points, f.selected)
             points == IF index = 0 THEN f.points
                       ELSE UpdatePoint(f.points, f.selected,
                                        [id |-> f.field,
                                         elevation |-> f.points[index].elevation,
                                         location |-> f.points[index].location,
                                         remarks |-> f.points[index].remarks])
         IN  IF f.field = f.selected THEN Form(points, f.markers, f.selected, f.field)
             ELSE Form(points,
                       MarkerSet(MarkerDelete(f.markers, f.selected),
                                 [MarkerGet(f.markers, f.selected) EXCEPT !.key = f.field]),
                       f.field, f.field)

\* The blur handler of the id field: the field shows the formatted value; a
\* value that is not blank and not of the form X-nn stops the handler; else
\* updateSelectedPointInfo() runs when the formatting changed the value.
BlurPointId(f) ==
    LET formattedValue == FormatPointId(f.field, "Validators")
        g == [f EXCEPT !.field = formattedValue]
    IN  IF ~IsValidPointIdFormat(formattedValue) /\ Trim(formattedValue) # <<>> THEN g
        ELSE IF f.field # formattedValue THEN UpdateSelectedPointInfo(g)
        ELSE g

\* The user replaces the value of the id field and leaves the field: the
\* change handler (updateSelectedPointInfo) and then the blur handler run.
EditPointId(value) ==
        /\ value # pointIdField
        /\ Truthy(selectedPointId) => MarkerHas(markers, selectedPointId)
        /\ LET f == BlurPointId(UpdateSelectedPointInfo(
                        Form(gpsPoints, markers, selectedPointId, value)))
           IN  /\ gpsPoints' = f.points
               /\ markers' = f.markers
               /\ selectedPointId' = f.selected
               /\ pointIdField' = f.field
               /\ detached' = Detach(f.points, pending, loops)
        /\ ret' = Ret("none", <<>>)
        /\ hist' = Hist("editId", value, <<>>, <<>>, Null, "", 0)
        /\ UNCHANGED <<variant, nextId, pending, loops, selectedMarker, isAddingPoint,
                       isMovingPoint, isDragging, draggingMarker, draggingPointId>>

\* The keydown handler on Escape: setAddingMode(false), setMovingMode(false)
Escape ==
    /\ isAddingPoint \/ isMovingPoint
    /\ isAddingPoint' = FALSE
    /\ isMovingPoint' = FALSE
    /\ ret' = Ret("none", <<>>)
    /\ hist' = Hist("escape", <<>>, <<>>, <<>>, Null, "", 0)
    /\ UNCHANGED <<variant, gpsPoints, nextId, pending, loops, detached, markers,
                   selectedMarker, selectedPointId, isDragging, draggingMarker,
                   draggingPointId, pointIdField>>

\* SpecUi: the file is a table with the required columns or one without
\* the longitude column; the map is clicked at one place, while no lookup is
\* in flight; the id typed is not of the form X-nn; the service answers
\* every lookup.
UiImport == \E jsonData \in UiTables : ImportFile(jsonData)

UiClick == pending = <<>> /\ ClickMap(ClickPlace)

UiEditId == \E value \in UiIds : EditPointId(value)

UiAnswer == \E i \in 1..Len(pending) : LookupAnswers(i, LookupOk)

InitUi == InitState("strict")

NextUi ==
    \/ UiImport \/ PressAdd \/ UiClick \/ MarkerClick \/ DeleteSelected \/ UiEditId
    \/ UiAnswer

SpecUi == InitUi /\ [][NextUi]_vars

\* SpecAdd: the map is clicked at either place and a lookup answers or fails.
MapClick == \E latlng \in MapPlaces : ClickMap(latlng)

AnswerOrFail == \E i \in 1..Len(pending), response \in UiResponses : LookupAnswers(i, response)

InitAdd == InitState("strict")

NextAdd == PressAdd \/ MapClick \/ AnswerOrFail \/ Escape

SpecAdd == InitAdd /\ [][NextAdd]_vars

\* SpecDrag: an imported waypoint is selected and dragged.
DragImport == ImportFile(UiTable)

InitDrag == InitState("strict")

NextDrag ==
    \/ DragImport \/ MarkerClick \/ PressMove \/ MouseDown \/ MouseMove \/ MouseUp
    \/ AnswerOrFail \/ Escape

SpecDrag == InitDrag /\ [][NextDrag]_vars

----------------------------------------------------------------------------
(* SpecCols: identifyColumns of both variants applied to a header row.      *)

\* The longest header row.
MaxHeaderLen == 3

\* The six labels (one padded with spaces), a cell holding both the loose id
\* token and the loose location token, the loose word for place, an empty
\* cell and a cell no rule matches.
HeaderCells ==
    {Str(LabelId), Str(LabelLocation), Str(LabelLat),
     Str(<<" ">> \o LabelLng \o <<"fwsp">>), Str(LabelElevation),
     Str(LabelRemarks), Str(TokenPoint \o LabelLocation), Str(TokenPlace),
     Undef, Str(<<"x">>)}

HeaderRows == SeqsUpTo(HeaderCells, MaxHeaderLen)

\* identifyColumns(headerRow) on the header row in hist.data.
IdentifyColumnsOp ==
    /\ hist.op = "given"
    /\ ret' = Ret("columns", IdentifyColumns(variant, hist.data))
    /\ hist' = [hist EXCEPT !.op = "identifyColumns"]
    /\ UNCHANGED <<variant, gpsPoints, nextId, pending, loops, detached, pmVars>>

InitCols ==
    /\ variant \in {"strict", "loose"}
    /\ gpsPoints = <<>>
    /\ nextId = 1
    /\ pending = <<>>
    /\ loops = {}
    /\ detached = {}
    /\ InitPm
    /\ ret = Ret("none", <<>>)
    /\ \E headerRow \in HeaderRows :
          hist = Hist("given", <<>>, <<>>, headerRow, Null, "", 0)

NextCols == IdentifyColumnsOp

SpecCols == InitCols /\ [][NextCols]_vars

----------------------------------------------------------------------------
(* SpecId: formatPointId applied to the text typed into the id field.       *)

\* The longest text typed.
MaxIdLen == 4

\* Letters in the four forms, digits in both widths, the hyphen, both
\* spaces and a kanji.
IdChars == {"A", "b", "fwC", "fwd", "1", "2", "fw1", "-", " ", "fwsp", KARI}

IdInputs == SeqsUpTo(IdChars, MaxIdLen)

Classes == {"DataUtils", "Validators"}

\* formatPointId(value) of the class in hist.kind, on the text in hist.id.
FormatPointIdOp ==
    /\ hist.op = "typed"
    /\ ret' = Ret("text", FormatPointId(hist.id, hist.kind))
    /\ hist' = [hist EXCEPT !.op = "formatPointId"]
    /\ UNCHANGED <<variant, gpsPoints, nextId, pending, loops, detached, pmVars>>

InitId ==
    /\ variant = "strict"
    /\ gpsPoints = <<>>
    /\ nextId = 1
    /\ pending = <<>>
    /\ loops = {}
    /\ detached = {}
    /\ InitPm
    /\ ret = Ret("none", <<>>)
    /\ \E value \in IdInputs, class \in Classes :
          hist = Hist("typed", value, <<>>, <<>>, Null, class, 0)

NextId == FormatPointIdOp

SpecId == InitId /\ [][NextId]_vars

----------------------------------------------------------------------------
(* SpecNorm: normalizeElevation applied to a value of any type.             *)

\* The longest text drawn character by character.
MaxElevLen == 3

ElevChars == {"0", "1", "5", ".", "-", " ", "a"}

T_12345 == <<"1", "2", "3", ".", "4", "5">>

\* Texts of at most two digits (numbers below 100), and four longer ones.
ElevTexts ==
    {t \in SeqsUpTo(ElevChars, MaxElevLen) :
        Cardinality({i \in 1..Len(t) : t[i] \in Digits}) <= 2}
    \cup {T_1230, T_12345, T_abc, T_Infinity}

\* 0, 123, 123.45, -5, 0.04, -0.04, 0.95 and Infinity as numbers.
ElevNumbers ==
    {Num(0), Num(123 * Scale), Num(123 * Scale + 45 * (Scale \div 100)),
     Num(0 - 5 * Scale), Num(4 * (Scale \div 100)), Num(0 - 4 * (Scale \div 100)),
     Num(95 * (Scale \div 100)), Infinity}

ElevValues ==
    {Undef} \cup {NumCell(x) : x \in ElevNumbers} \cup {Str(t) : t \in ElevTexts}

\* normalizeElevation(elevation) on the value in hist.data.
NormalizeElevationOp ==
    /\ hist.op = "given"
    /\ ret' = Ret("text", NormalizeElevationValue(hist.data[1]))
    /\ hist' = [hist EXCEPT !.op = "normalizeElevation"]
    /\ UNCHANGED <<variant, gpsPoints, nextId, pending, loops, detached, pmVars>>

InitNorm ==
    /\ variant = "strict"
    /\ gpsPoints = <<>>
    /\ nextId = 1
    /\ pending = <<>>
    /\ loops = {}
    /\ detached = {}
    /\ InitPm
    /\ ret = Ret("none", <<>>)
    /\ \E elevation \in ElevValues :
          hist = Hist("given", <<>>, <<>>, <<elevation>>, Null, "", 0)

NextNorm == NormalizeElevationOp

SpecNorm == InitNorm /\ [][NextNorm]_vars

----------------------------------------------------------------------------
(* Claims C1, C2, C8: ids and coordinates of the store (Spec).              *)

\* C1: in every reachable state of the store under import, addPoint,
\* updatePoint and removePoint, no two waypoints have the same id.
C1_IdsUnique ==
    \A i, j \in 1..Len(gpsPoints) : i # j => gpsPoints[i].id # gpsPoints[j].id

\* C2: every waypoint held by the store has a finite lat and a finite lng; a
\* record with a coordinate that is not a finite number is never stored.
C2_CoordinatesFinite ==
    \A i \in 1..Len(gpsPoints) :
        IsFiniteNum(gpsPoints[i].lat) /\ IsFiniteNum(gpsPoints[i].lng)

\* The numeric suffixes of the ids of the temporary form.
TempSuffixes(points) ==
    {DigitsValue(points[i].id, 2, 3) :
        i \in {k \in 1..Len(points) :
                  /\ Len(points[k].id) = 3
                  /\ points[k].id[1] = KARI
                  /\ points[k].id[2] \in Digits
                  /\ points[k].id[3] \in Digits}}

\* The smallest positive number that is no such suffix.
SmallestUnused(points) ==
    CHOOSE n \in 1..(Len(points) + 1) :
        n \notin TempSuffixes(points) /\ \A m \in 1..(n - 1) : m \in TempSuffixes(points)

\* C8: an id generated by addPoint is the marker followed by the smallest
\* positive number, in two digits, that is not the suffix of a temporary id
\* already in the store.
C8_GapFilling ==
    (hist.op = "add" /\ hist.id = <<>>)
    => ret.val = <<KARI>>
                 \o PadStart(NatToText(SmallestUnused(
                        SubSeq(gpsPoints, 1, Len(gpsPoints) - 1))), 2, "0")

----------------------------------------------------------------------------
(* Claim C10: the coordinate display parsed back (SpecDms).                 *)

\* 0.01 arc-second, 0.01/3600 of a degree, in fixed point.
HundredthArcSecond == Scale \div 360000

\* C10: for every latitude in [-90, 90] and longitude in [-180, 180],
\* negative values included, parsing the text of toDMSWithDirection gives
\* the value back within 0.01 arc-second.
C10_DmsRoundTrip ==
    hist.op = "dms"
    => /\ hist.res.k = "num"
       /\ Abs(hist.res.v - hist.data[1].v) <= HundredthArcSecond

----------------------------------------------------------------------------
(* Claims C4, C5, C9: the strict import and the export (SpecParse).         *)

\* The trimmed texts of the header cells.
HeaderLabels(headerRow) ==
    {Trim(CellToString(headerRow[i])) : i \in 1..Len(headerRow)}

\* The labels of the required roles the header does not carry, in the order
\* id, location, lat, lng.
ExpectedMissing(headerRow) ==
    SelectSeq(<<LabelId, LabelLocation, LabelLat, LabelLng>>,
              LAMBDA label : label \notin HeaderLabels(headerRow))

\* C4: a strict parse of a header and at least one data row throws exactly
\* when a required role has no header cell (a role in column 0 counts as
\* mapped); the message is the fixed sentence followed by the labels of
\* exactly the missing roles joined by the separator, and the store then
\* holds no waypoint.
C4_MissingColumns ==
    (hist.op = "parse" /\ Len(hist.data) >= 2)
    => /\ (ret.kind = "throw") <=> (ExpectedMissing(hist.data[1]) # <<>>)
       /\ ret.kind = "throw"
          => /\ ret.val = MissingPrefix \o Join(ExpectedMissing(hist.data[1]), Separator)
             /\ gpsPoints = <<>>

\* A parse threw for a header lacking two required roles, the others mapped.
C4_Witness ==
    /\ hist.op = "parse"
    /\ Len(hist.data) >= 2
    /\ ret.kind = "throw"
    /\ Len(ExpectedMissing(hist.data[1])) = 2

\* The one-based column carrying a label (the last one, were there several).
ColumnOf(headerRow, label) ==
    LET cols == {i \in 1..Len(headerRow) : Trim(CellToString(headerRow[i])) = label}
    IN  IF cols = {} THEN 0 ELSE CHOOSE i \in cols : \A j \in cols : j <= i

\* The trimmed text of a row's cell in one-based column c, empty when the
\* row has no such cell or the cell holds nothing.
CellText(row, c) ==
    IF c = 0 \/ c > Len(row) \/ row[c].t = "undef" THEN <<>>
    ELSE Trim(CellToString(row[c]))

RowIsBlank(row) == \A c \in 1..Len(row) : CellText(row, c) = <<>>

\* The rows C5 says yield a waypoint.
Qualifies(headerRow, row) ==
    /\ ~RowIsBlank(row)
    /\ \A label \in {LabelId, LabelLocation, LabelLat, LabelLng} :
           CellText(row, ColumnOf(headerRow, label)) # <<>>
    /\ ~IsNaN(ParseLatLng(CellText(row, ColumnOf(headerRow, LabelLat))))
    /\ ~IsNaN(ParseLatLng(CellText(row, ColumnOf(headerRow, LabelLng))))

ExpectedElevation(text) == IF text = T_1230 THEN T_123 ELSE NormalizeElevation(text)

ExpectedPoint(headerRow, row) ==
    [id |-> CellText(row, ColumnOf(headerRow, LabelId)),
     lat |-> ParseLatLng(CellText(row, ColumnOf(headerRow, LabelLat))),
     lng |-> ParseLatLng(CellText(row, ColumnOf(headerRow, LabelLng))),
     elevation |-> ExpectedElevation(CellText(row, ColumnOf(headerRow, LabelElevation))),
     location |-> CellText(row, ColumnOf(headerRow, LabelLocation)),
     remarks |-> CellText(row, ColumnOf(headerRow, LabelRemarks))]

RECURSIVE ExpectedPoints(_, _)
ExpectedPoints(jsonData, i) ==
    IF i > Len(jsonData) THEN <<>>
    ELSE (IF Qualifies(jsonData[1], jsonData[i])
          THEN <<ExpectedPoint(jsonData[1], jsonData[i])>> ELSE <<>>)
         \o ExpectedPoints(jsonData, i + 1)

\* The waypoints without their object identity.
Fields(points) ==
    [i \in 1..Len(points) |->
        [id |-> points[i].id, lat |-> points[i].lat, lng |-> points[i].lng,
         elevation |-> points[i].elevation, location |-> points[i].location,
         remarks |-> points[i].remarks]]

\* C5: with all required columns present, a strict parse raises nothing and
\* leaves, in row order, exactly one waypoint for each data row that is not
\* blank, has non-empty trimmed id, location, lat and lng cells and whose lat
\* and lng parse to a number; an elevation cell "123.0" is stored as "123".
C5_QualifyingRows ==
    (hist.op = "parse" /\ Len(hist.data) >= 2 /\ ExpectedMissing(hist.data[1]) = <<>>)
    => /\ ret = Ret("count", NatToText(Len(gpsPoints)))
       /\ Fields(gpsPoints) = ExpectedPoints(hist.data, 2)

\* A parse kept a row with elevation cell "123.0" and skipped another row.
C5_Witness ==
    /\ hist.op = "parse"
    /\ Len(hist.data) = 3
    /\ Len(gpsPoints) = 1
    /\ gpsPoints[1].elevation = T_123
    /\ CellText(hist.data[2], ColumnOf(hist.data[1], LabelElevation)) = T_1230
    /\ ~RowIsBlank(hist.data[3])

\* Rounding to 5 decimal places, a tie going away from zero.
Round5(x) ==
    IF x.k # "num" THEN x
    ELSE IF x.v < 0 THEN Num(0 - (((0 - x.v) + 45) \div 90) * 90)
    ELSE Num(((x.v + 45) \div 90) * 90)

\* C9: exporting the store left by an import and importing the exported rows
\* gives the same number of waypoints in the same order, with the same id,
\* location, elevation and remarks, and lat and lng rounded to 5 decimals.
C9_RoundTrip ==
    [][(hist.op \in {"parse", "reimport"} /\ hist'.op = "reimport")
       => /\ ret'.kind = "count"
          /\ Len(gpsPoints') = Len(gpsPoints)
          /\ \A i \in 1..Len(gpsPoints) :
                /\ gpsPoints'[i].id = gpsPoints[i].id
                /\ gpsPoints'[i].location = gpsPoints[i].location
                /\ gpsPoints'[i].elevation = gpsPoints[i].elevation
                /\ gpsPoints'[i].remarks = gpsPoints[i].remarks
                /\ gpsPoints'[i].lat = Round5(gpsPoints[i].lat)
                /\ gpsPoints'[i].lng = Round5(gpsPoints[i].lng)]_vars

\* A re-import left two waypoints, one with a longitude that export rounded
\* (135.123456 to 135.12346) and a non-numeric elevation.
C9_Witness ==
    /\ hist.op = "reimport"
    /\ Len(gpsPoints) = 2
    /\ \E i \in 1..2 :
          /\ gpsPoints[i].lng = Num(135 * Scale + 12346 * 90)
          /\ gpsPoints[i].elevation = T_abc

----------------------------------------------------------------------------
(* Claim C3: the form of a stored elevation (SpecElev).                     *)

\* Digits without a leading zero, "0" itself included.
IsWholeText(u) ==
    /\ u # <<>>
    /\ \A i \in 1..Len(u) : u[i] \in Digits
    /\ Len(u) > 1 => u[1] # "0"

\* A whole number, or a whole number, a point and one digit other than 0.
IsCanonicalMagnitude(u) ==
    \/ IsWholeText(u)
    \/ /\ Len(u) >= 3
       /\ u[Len(u) - 1] = "."
       /\ u[Len(u)] \in Digits \ {"0"}
       /\ IsWholeText(SubSeq(u, 1, Len(u) - 2))

\* Canonical numeric text: an integer when the value is whole, otherwise
\* exactly one decimal digit; zero carries no sign.
IsCanonical(t) ==
    IF t # <<>> /\ t[1] = "-"
    THEN IsCanonicalMagnitude(Tail(t)) /\ Tail(t) # <<"0">>
    ELSE IsCanonicalMagnitude(t)

----------------------------------------------------------------------------
(* Claims C6, C7: ensureValidElevation (SpecEnsure).                        *)

\* Policy A (loose variant): the elevation is numerically positive.
NoLookupPolicyA(elevation) ==
    ParseFloat(elevation).k # "nan" /\ ParseFloat(elevation).v > 0

\* Policy B (strict variant): the elevation is neither empty nor exactly zero.
NoLookupPolicyB(elevation) ==
    elevation # <<>> /\ ParseFloat(elevation) # Num(0)

\* C6: a call of ensureValidElevation for a stored waypoint whose elevation
\* needs no lookup under the variant's policy issues no lookup, changes
\* nothing in the store and returns that elevation.
C6_NoLookup ==
    [][LET index == FindIndex(gpsPoints, hist'.id)
       IN  (/\ hist'.op = "ensure"
            /\ index # 0
            /\ IF variant = "loose"
               THEN NoLookupPolicyA(gpsPoints[index].elevation)
               ELSE NoLookupPolicyB(gpsPoints[index].elevation))
           => /\ pending' = pending
              /\ gpsPoints' = gpsPoints
              /\ ret' = Ret("value", gpsPoints[index].elevation)]_vars

\* The loose variant returned the positive elevation "123" at once, with no
\* lookup in flight.
C6_Witness ==
    /\ variant = "loose"
    /\ hist.op = "ensure"
    /\ ret = Ret("value", T_123)
    /\ pending = <<>>
    /\ \E i \in 1..Len(gpsPoints) : gpsPoints[i].elevation = T_123

\* The lookup failed, gave null, or gave no positive number.
LookupFailed(res) == res.k = "null" \/ res.k = "nan" \/ res.v <= 0

\* C7: when the lookup of ensureValidElevation fails, gives null or gives a
\* value that is not positive, the store is left as it was and the call
\* returns (it does not throw) the elevation of the waypoint it holds.
C7_FailedLookup ==
    [][(hist'.op = "lookupReturn" /\ hist'.kind = "ensure" /\ LookupFailed(hist'.res))
       => /\ gpsPoints' = gpsPoints
          /\ ret'.kind = "value"
          /\ \A i \in 1..Len(gpsPoints) :
                gpsPoints[i].oid = hist'.oid => ret'.val = gpsPoints[i].elevation
          /\ \A r \in detached : r.oid = hist'.oid => ret'.val = r.elevation]_vars

\* The service answered -3 for a waypoint holding "0": "0" was returned and
\* is still stored.
C7_Witness ==
    /\ hist.op = "lookupReturn"
    /\ hist.kind = "ensure"
    /\ hist.res = Num(0 - 3 * Scale)
    /\ ret = Ret("value", T_0)
    /\ \E i \in 1..Len(gpsPoints) :
          gpsPoints[i].oid = hist.oid /\ gpsPoints[i].elevation = T_0

----------------------------------------------------------------------------
(* Claims C11, C12, C13: formatPointId (SpecId).                            *)

IsUpper(c) == \E k \in 1..26 : c = UpperLetters[k]

\* One upper case letter, a hyphen and one digit.
LetterHyphenDigit(id) ==
    Len(id) = 3 /\ IsUpper(id[1]) /\ id[2] = "-" /\ id[3] \in Digits

\* C11: one letter, a hyphen and a single digit are formatted to
\* the letter, the hyphen, "0" and the digit ("A-1" gives "A-01").
C11_PaddedAfterHyphen ==
    (hist.op = "formatPointId" /\ LetterHyphenDigit(hist.id))
    => ret.val = <<hist.id[1], "-", "0", hist.id[3]>>

\* Upper case letters followed by exactly two digits, and nothing else.
LettersTwoDigits(id) ==
    /\ Len(id) >= 3
    /\ \A i \in 1..(Len(id) - 2) : IsUpper(id[i])
    /\ id[Len(id) - 1] \in Digits
    /\ id[Len(id)] \in Digits

\* C12 as claimed: letters followed by exactly two digits, with no hyphen,
\* are returned unchanged ("A12" gives "A12").
C12_TwoDigitsUnchanged ==
    (hist.op = "formatPointId" /\ LettersTwoDigits(hist.id)) => ret.val = hist.id

\* C12 as amended: one letter followed by exactly two digits gets a hyphen
\* between the letter and the digits, with no padding ("A12" gives "A-12");
\* two or more letters followed by exactly two digits are returned unchanged.
C12_TwoDigitsHyphenated ==
    (hist.op = "formatPointId" /\ LettersTwoDigits(hist.id))
    => ret.val = IF Len(hist.id) = 3
                 THEN <<hist.id[1], "-", hist.id[2], hist.id[3]>>
                 ELSE hist.id

\* formatPointId("A12") returned "A-12".
C12_Witness ==
    /\ hist.op = "formatPointId"
    /\ hist.id = <<"A", "1", "2">>
    /\ ret.val = <<"A", "-", "1", "2">>

\* The text without its half-width and full-width spaces.
WithoutSpaces(id) == SelectSeq(id, LAMBDA c : c \notin {" ", "fwsp"})

\* C13: text that is, spaces apart, one Latin letter (either case, either
\* width) followed by one digit (either width) is formatted to the upper
\* case letter, a hyphen, "0" and the digit, which is a valid id format.
C13_LetterDigit ==
    \A k \in 1..26, d \in 1..10 :
        (/\ hist.op = "formatPointId"
         /\ Len(WithoutSpaces(hist.id)) = 2
         /\ WithoutSpaces(hist.id)[1]
               \in {UpperLetters[k], LowerLetters[k], FullWidthUpper[k], FullWidthLower[k]}
         /\ WithoutSpaces(hist.id)[2] \in {HalfWidthDigits[d], FullWidthDigits[d]})
        => /\ ret.val = <<UpperLetters[k], "-", "0", HalfWidthDigits[d]>>
           /\ IsValidPointIdFormat(ret.val)

\* A full-width lower case letter and a full-width digit, with a space
\* before and a full-width space between them, gave "D-01".
C13_Witness ==
    /\ hist.op = "formatPointId"
    /\ hist.id = <<" ", "fwd", "fwsp", "fw1">>
    /\ ret.val = <<"D", "-", "0", "1">>

----------------------------------------------------------------------------
(* Claim C14: normalizeElevation (SpecNorm).                                *)

\* The number an argument stands for: itself, or what parseFloat reads.
ValueOf(elevation) ==
    IF elevation.t = "num" THEN elevation.n ELSE ParseFloat(CellToString(elevation))

\* C14: empty or missing input gives the empty string; input that stands
\* for a finite number, zero included, gives canonical text within half a
\* tenth of the value; input that stands for no number gives its trimmed
\* text.
C14_Normalized ==
    hist.op = "normalizeElevation"
    => IF hist.data[1].t = "undef" \/ hist.data[1] = Str(<<>>)
       THEN ret.val = <<>>
       ELSE IF IsFiniteNum(ValueOf(hist.data[1]))
       THEN /\ IsCanonical(ret.val)
            /\ Abs(ParseFloat(ret.val).v - ValueOf(hist.data[1]).v) <= Scale \div 20
       ELSE IF IsNaN(ValueOf(hist.data[1]))
       THEN ret.val = Trim(CellToString(hist.data[1]))
       ELSE TRUE

----------------------------------------------------------------------------
(* Claims C15, C18, C20: updatePoint, removePoint, exportToExcel            *)
(* (SpecStore).                                                             *)

\* C15: updatePoint and removePoint with an id that no waypoint has return
\* null, without throwing, and leave the store exactly as it was.
C15_NotFound ==
    [][(/\ hist'.op \in {"update", "remove"}
        /\ \A i \in 1..Len(gpsPoints) : gpsPoints[i].id # hist'.id)
       => /\ gpsPoints' = gpsPoints
          /\ ret' = Ret("null", <<>>)]_vars

\* removePoint of an id that neither of the two waypoints has returned null.
C15_Witness ==
    /\ hist.op = "remove"
    /\ hist.id = UnknownId
    /\ ret = Ret("null", <<>>)
    /\ Len(gpsPoints) = 2

\* The elevation cell of an exported row, for the stored elevation.
ElevationCellAsClaimed(cell, elevation) ==
    IF elevation = <<>> THEN cell = Str(<<>>)
    ELSE IF IsNaN(ParseFloat(elevation)) THEN cell = Str(elevation)
    ELSE /\ cell.t = "num"
         /\ IF IsFiniteNum(ParseFloat(elevation))
            THEN /\ cell.n.k = "num"
                 /\ Abs(cell.n.v - ParseFloat(elevation).v) <= Scale \div 20
            ELSE cell.n = ParseFloat(elevation)

RowAsClaimed(row, point) ==
    /\ Len(row) = 6
    /\ row[1] = Str(point.id)
    /\ row[2] = Str(point.location)
    /\ row[3] = NumCell(Round5(point.lat))
    /\ row[4] = NumCell(Round5(point.lng))
    /\ ElevationCellAsClaimed(row[5], point.elevation)
    /\ row[6] = Str(point.remarks)

\* C18: exportToExcel gives the header row, then one row per waypoint in
\* store order: id, location, lat and lng as numbers rounded to 5 decimal
\* places, the elevation as a number when it parses as one and as its text
\* otherwise, remarks; and it leaves the store as it was.
C18_ExportRows ==
    [][hist'.op = "export"
       => /\ gpsPoints' = gpsPoints
          /\ ret'.kind = "rows"
          /\ Len(ret'.val) = Len(gpsPoints) + 1
          /\ ret'.val[1] = <<Str(LabelId), Str(LabelLocation), Str(LabelLat),
                             Str(LabelLng), Str(LabelElevation), Str(LabelRemarks)>>
          /\ \A i \in 1..Len(gpsPoints) : RowAsClaimed(ret'.val[i + 1], gpsPoints[i])]_vars

\* Two waypoints were exported, the first with elevation "12.3" written as
\* the number 12.3, the second with elevation "abc" written as text.
C18_Witness ==
    /\ hist.op = "export"
    /\ Len(gpsPoints) = 2
    /\ gpsPoints[1].elevation = <<"1", "2", ".", "3">>
    /\ ret.val[2][5] = NumCell(Num(12 * Scale + 3 * (Scale \div 10)))
    /\ gpsPoints[2].elevation = T_abc
    /\ ret.val[3][5] = Str(T_abc)

\* The first position of the store that holds the id.
FirstWithId(points, id) ==
    CHOOSE i \in 1..Len(points) :
        points[i].id = id /\ \A j \in 1..(i - 1) : points[j].id # id

\* The elevation stored for a supplied one: empty for empty, canonical text
\* of the value for a finite number, the text as given when it is no number.
StoredAsNormalized(stored, supplied) ==
    IF supplied = <<>> THEN stored = <<>>
    ELSE IF IsNaN(ParseFloat(supplied)) THEN stored = supplied
    ELSE IsFiniteNum(ParseFloat(supplied))
         => /\ IsCanonical(stored)
            /\ Abs(ParseFloat(stored).v - ParseFloat(supplied).v) <= Scale \div 20

\* The record after updatePoint(id, updates), field by field.
UpdatedAsClaimed(after, before, updates) ==
    \A f \in DOMAIN before :
        IF f \notin DOMAIN updates THEN after[f] = before[f]
        ELSE IF f = "elevation" THEN StoredAsNormalized(after[f], updates[f])
        ELSE after[f] = updates[f]

\* C20: updatePoint(id, fields) on an id that a waypoint has changes only
\* the supplied fields of the first waypoint with that id, a supplied
\* elevation being stored normalized; the other fields, the order and every
\* other waypoint stay as they were; the updated record is returned.
C20_UpdateFrame ==
    [][(/\ hist'.op = "update"
        /\ \E i \in 1..Len(gpsPoints) : gpsPoints[i].id = hist'.id)
       => /\ Len(gpsPoints') = Len(gpsPoints)
          /\ \A j \in 1..Len(gpsPoints) :
                IF j = FirstWithId(gpsPoints, hist'.id)
                THEN UpdatedAsClaimed(gpsPoints'[j], gpsPoints[j], hist'.data[1])
                ELSE gpsPoints'[j] = gpsPoints[j]
          /\ ret' = Ret("point", gpsPoints'[FirstWithId(gpsPoints, hist'.id)].id)]_vars

\* Two waypoints have the id "A-01"; updatePoint("A-01", {elevation: " 12.34"})
\* changed the first one only.
C20_Witness ==
    /\ hist.op = "update"
    /\ hist.id = T_A01
    /\ hist.data = <<[elevation |-> T_1234sp]>>
    /\ Len(gpsPoints) = 2
    /\ gpsPoints[1].id = T_A01
    /\ gpsPoints[2].id = T_A01
    /\ gpsPoints[1].elevation = <<"1", "2", ".", "3">>
    /\ gpsPoints[2].elevation = <<>>

----------------------------------------------------------------------------
(* Claim C16: the loose import and the lat and lng columns (SpecLoose).     *)

\* A data row that is not blank and whose lat and lng cells parse to numbers.
ValidLooseRow(headerRow, row) ==
    /\ ~RowIsBlank(row)
    /\ ~IsNaN(ParseLatLng(CellText(row, ColumnOf(headerRow, LabelLat))))
    /\ ~IsNaN(ParseLatLng(CellText(row, ColumnOf(headerRow, LabelLng))))

\* C16: a loose parse of a header and at least one data row never throws;
\* it leaves no waypoint when the header has no lat or no lng column; and
\* when it has both, in whatever columns, it leaves one waypoint for each
\* valid data row.
C16_LooseColumns ==
    (variant = "loose" /\ hist.op = "parse" /\ Len(hist.data) >= 2)
    => /\ ret.kind # "throw"
       /\ IF ColumnOf(hist.data[1], LabelLat) = 0 \/ ColumnOf(hist.data[1], LabelLng) = 0
          THEN gpsPoints = <<>>
          ELSE Len(gpsPoints)
               = Cardinality({i \in 2..Len(hist.data) :
                                 ValidLooseRow(hist.data[1], hist.data[i])})

----------------------------------------------------------------------------
(* Claim C17: an update during an enrichment's lookup (SpecElev).           *)

\* C17: when a waypoint's elevation is updated while the lookup of its
\* ensureValidElevation is in flight, the completion of that call leaves
\* the elevation of the update in the store.
C17_UpdateDuringLookup ==
    [][(/\ hist.op = "update"
        /\ hist.oid # 0
        /\ "elevation" \in DOMAIN hist.data[1]
        /\ hist'.op = "lookupReturn"
        /\ hist'.kind = "ensure"
        /\ hist'.id = hist.id)
       => \A i \in 1..Len(gpsPoints) :
              gpsPoints[i].id = hist.id
              => /\ Len(gpsPoints') = Len(gpsPoints)
                 /\ gpsPoints'[i].elevation = gpsPoints[i].elevation]_vars

----------------------------------------------------------------------------
(* Claim C19: the form of a generated temporary id (SpecTemp).              *)

\* C19: every id that addPoint generates is the marker followed by exactly
\* two digits, however many temporary ids the store holds.
C19_TemporaryForm ==
    (hist.op = "add" /\ hist.id = <<>>)
    => /\ Len(ret.val) = 3
       /\ ret.val[1] = KARI
       /\ ret.val[2] \in Digits
       /\ ret.val[3] \in Digits

----------------------------------------------------------------------------
(* Claim C21: a parse replaces the store (SpecEnsure).                      *)

\* The records parseExcelData computes from the rows alone.
ParsedAlone(jsonData) ==
    IF variant = "strict" THEN {StrictParse(jsonData).recs}
    ELSE {LooseParse(jsonData, n).recs : n \in {m \in 1..MaxNextId :
                                                 LooseParse(jsonData, m).n = nextId}}

\* C21: after a parseExcelData that returns normally the store holds exactly
\* the waypoints parsed from that call's rows, and no object that the store
\* held before (one a suspended lookup still holds included), whatever
\* imports, addPoint and updatePoint calls came before.
C21_ParseReplaces ==
    (hist.op = "parse" /\ ret.kind = "count")
    => /\ Fields(gpsPoints) \in ParsedAlone(hist.data)
       /\ \A r \in detached : r.oid \notin Oids(gpsPoints)

\* A parse replaced a waypoint whose lookup is still in flight: the lookup
\* holds the old object, the store holds the one parsed.
C21_Witness ==
    /\ hist.op = "parse"
    /\ ret.kind = "count"
    /\ Len(gpsPoints) = 1
    /\ \E i \in 1..Len(pending) :
          /\ pending[i].oid # 0
          /\ pending[i].oid \notin Oids(gpsPoints)
          /\ pending[i].oid \in {r.oid : r \in detached}

----------------------------------------------------------------------------
(* Claim C22: the role map of identifyColumns (SpecCols).                   *)

\* The rules of a variant, as roles in the order they are tested.
RuleRoles(v) ==
    IF v = "strict" THEN <<"id", "location", "lat", "lng", "elevation", "remarks">>
    ELSE <<"id", "lat", "lng", "elevation", "location">>

RuleLabel(role) ==
    CASE role = "id" -> LabelId
      [] role = "location" -> LabelLocation
      [] role = "lat" -> LabelLat
      [] role = "lng" -> LabelLng
      [] role = "elevation" -> LabelElevation
      [] role = "remarks" -> LabelRemarks

\* Whether the rule of a role matches a trimmed header text.
RuleMatches(v, role, header) ==
    IF v = "strict" \/ role \in {"lat", "lng", "elevation"}
    THEN header = RuleLabel(role)
    ELSE IF role = "id" THEN Includes(header, TokenPoint, 1)
    ELSE \E token \in {LabelLocation, TokenPosition, TokenPlace} :
             Includes(header, token, 1)

\* The role of the first rule that matches, "none" if none does.
FirstRule(v, header) ==
    LET ks == {k \in 1..Len(RuleRoles(v)) : RuleMatches(v, RuleRoles(v)[k], header)}
    IN  IF ks = {} THEN "none"
        ELSE RuleRoles(v)[CHOOSE k \in ks : \A m \in ks : k <= m]

\* The role of the cell in zero-based column i of a header row.
CellRole(v, headerRow, i) == FirstRule(v, Trim(CellToString(headerRow[i + 1])))

\* C22: the role map holds exactly the roles that are the first-matching
\* rule of some header cell, each mapped to the right-most such cell; no
\* column is the column of two roles; and a cell that matches no rule can be
\* emptied without changing the map.
C22_ColumnRoles ==
    hist.op = "identifyColumns"
    => /\ DOMAIN ret.val =
              {CellRole(variant, hist.data, i) : i \in 0..(Len(hist.data) - 1)} \ {"none"}
       /\ \A role \in DOMAIN ret.val :
              /\ ret.val[role] \in 0..(Len(hist.data) - 1)
              /\ CellRole(variant, hist.data, ret.val[role]) = role
              /\ \A j \in (ret.val[role] + 1)..(Len(hist.data) - 1) :
                     CellRole(variant, hist.data, j) # role
       /\ \A r1, r2 \in DOMAIN ret.val : ret.val[r1] = ret.val[r2] => r1 = r2
       /\ \A i \in 0..(Len(hist.data) - 1) :
              CellRole(variant, hist.data, i) = "none"
              => IdentifyColumns(variant, [hist.data EXCEPT ![i + 1] = Undef]) = ret.val

\* The loose variant, a header of a cell that holds the id token and the
\* location token, a cell no rule matches and the id label: id is mapped to
\* the last column and location to none.
C22_Witness ==
    /\ hist.op = "identifyColumns"
    /\ variant = "loose"
    /\ hist.data = <<Str(TokenPoint \o LabelLocation), Str(<<"x">>), Str(LabelId)>>
    /\ DOMAIN ret.val = {"id"}
    /\ ret.val["id"] = 2

----------------------------------------------------------------------------
(* Claim C23: the loop of fetchMissingElevations (SpecLoop).                *)

\* A loop awaits one lookup while it is in ensureValidElevation and none
\* while it waits for its timer; every awaited lookup belongs to a loop.
OneLookupPerLoop ==
    /\ \A l \in loops :
          Cardinality(AwaitedBy(pending, l.lid)) = IF l.phase = "lookup" THEN 1 ELSE 0
    /\ \A i \in 1..Len(pending) :
          pending[i].loop # 0 => \E l \in loops : l.lid = pending[i].loop

\* When the lookup a loop awaits returns, with a result or without, the loop
\* goes on to its timer with the waypoints still to come unchanged; a timer
\* that fires takes the next of them, or ends the loop if none is left.
LoopGoesOn ==
    \A l \in loops :
        /\ (l.phase = "lookup" /\ AwaitedBy(pending', l.lid) = {})
           => [l EXCEPT !.phase = "delay"] \in loops'
        /\ (l.phase = "delay" /\ l \notin loops')
           => IF l.rest = <<>> THEN \A l2 \in loops' : l2.lid # l.lid
              ELSE \E l2 \in loops' : l2.lid = l.lid /\ l2.rest = Tail(l.rest)

Running(lid) == \E l \in loops : l.lid = lid

\* C23: a loop never has two lookups in flight and issues none while it
\* waits for its timer; a lookup that returns, failed or not, leaves the loop
\* running on the following waypoints; and every loop ends.
C23_SerializedLoop ==
    /\ []OneLookupPerLoop
    /\ [][LoopGoesOn]_vars
    /\ \A lid \in 1..MaxLoops : Running(lid) ~> ~Running(lid)

\* The lookup for the first of two waypoints failed (its elevation is still
\* empty) and the timer then issued the lookup for the second.
C23_Witness ==
    /\ hist.op = "timer"
    /\ Len(gpsPoints) = 2
    /\ gpsPoints[1].elevation = <<>>
    /\ Len(pending) = 1
    /\ pending[1].loop # 0
    /\ pending[1].oid = gpsPoints[2].oid
    /\ \E l \in loops : l.lid = pending[1].loop /\ l.phase = "lookup" /\ l.rest = <<>>

----------------------------------------------------------------------------
(* Claim C24: the record an enrichment writes to (SpecElev).                *)

\* C24: when ensureValidElevation writes a looked-up elevation, the waypoint
\* it changes is the object the lookup was started for, whatever happened to
\* the store while the lookup was in flight.
C24_SameRecord ==
    [][(hist'.op = "lookupReturn" /\ hist'.kind = "ensure")
       => \A i \in 1..Len(gpsPoints) :
              gpsPoints'[i] # gpsPoints[i] => gpsPoints[i].oid = hist'.oid]_vars

----------------------------------------------------------------------------
(* Claim C26: the store after an import that ended with an error (SpecParse) *)

\* C26: an import that ends with an error leaves the store holding exactly
\* the waypoints, in the same order and with the same field values, that it
\* held before the import was attempted.
C26_FailedImportKeepsStore ==
    [][(hist'.op = "parse" /\ ret'.kind = "throw")
       => Fields(gpsPoints') = Fields(gpsPoints)]_vars

----------------------------------------------------------------------------
(* Claim C27: freshness of generated ids (SpecTemp).                        *)

\* C27: the id that addPoint generates differs from the id of every waypoint
\* already in the store, however many waypoints were added before.
C27_FreshGeneratedId ==
    [][(hist'.op = "add" /\ hist'.id = <<>>) => ret'.val \notin Ids(gpsPoints)]_vars

----------------------------------------------------------------------------
(* Claim C25: the markers and the store (SpecUi).                           *)

\* C25: when no handler is suspended, the keys of the markers Map are the
\* ids of the waypoints in the store, one marker for every waypoint, and
\* selectedPointId is null or the id of a waypoint in the store.
C25_MarkersMatchStore ==
    pending = <<>>
    => /\ {m.key : m \in markers} = Ids(gpsPoints)
       /\ Cardinality(markers) = Len(gpsPoints)
       /\ selectedPointId = NullId \/ selectedPointId \in Ids(gpsPoints)

----------------------------------------------------------------------------
(* Claim C28: the marker after the drag was released (SpecDrag).            *)

\* C28: once the mouseup that ends a drag has been handled, a mouse movement
\* that follows it (no mousedown in between) does not move the marker, the
\* lookup that the release started pending or not.
C28_ReleasedMarkerStays ==
    [][(hist.op = "mouseUp" /\ hist'.op = "mouseMove") => markers' = markers]_vars

----------------------------------------------------------------------------
(* Claim C29: the adding mode is one-shot (SpecAdd).                        *)

\* C29: a map click that created a waypoint is not followed by another map
\* click that creates a waypoint (the add button not pressed in between),
\* the first click's lookup pending or not.
C29_OneShotAdding ==
    [][(hist.op = "mapClick" /\ hist'.op = "mapClick")
       => Len(gpsPoints') = Len(gpsPoints)]_vars

----------------------------------------------------------------------------
(* Claim C30: the ids that the id field writes (SpecUi).                    *)

\* C30: after the change and blur handlers of the id field have run, the
\* selected waypoint has the id it had before, or an id of the form X-nn, or
\* a blank id.
C30_FieldWritesValidId ==
    [][(hist'.op = "editId" /\ Truthy(selectedPointId))
       => \A i \in 1..Len(gpsPoints) :
              \/ gpsPoints'[i].id = gpsPoints[i].id
              \/ IsValidPointIdFormat(gpsPoints'[i].id)]_vars

====
